---- MODULE Spec2Model ----
(***************************************************************************)
(* A model of magetools' SpellSync (src/src/magetools/spellsync.py) and of *)
(* Grimorium.execute_spell (src/src/magetools/grimorium.py): the registry  *)
(* of discovered spells, the discovery pass over a directory tree, the    *)
(* vector index the registry is synchronised to, the similarity search     *)
(* over that index, the access check and the manifest policy.              *)
(*                                                                         *)
(* Distances are integers, in tenths: 4 is the code's 0.4.                 *)
(***************************************************************************)
EXTENDS Integers, Sequences, FiniteSets, TLC

VARIABLES
    registry,     \* SpellSync.registry: a dict, kept in insertion order
    allowed,      \* SpellSync.allowed_collections: None or a list of names
    index,        \* the vector store: collection name -> (id -> stored hash)
    op,           \* the operation that ran last
    arg,          \* its argument (the query, the spell name)
    found,        \* find_matching_spells: the list returned
    all_matches,  \* find_matching_spells: the merged (id, distance) pairs
    queried,      \* find_matching_spells: the collections it queried
    store_calls,  \* find_matching_spells: the store calls it made, in order
    access,       \* validate_spell_access: "granted", "denied" or "none"
    invoked,      \* execute_spell: whether the spell's callable was run
    status,       \* execute_spell: the "status" of the dict returned
    raised,       \* whether the operation raised to its caller
    upserts,      \* sync_spells: the upsert calls issued, in order
    passLog,      \* sync_spells: per book, what the pass staged and skipped
    log,          \* the warnings and errors the operation logged
    faults,       \* the store calls that raised during the operation
    previous,     \* sync_spells: the operation that ran just before the pass
    policy,       \* the manifest policy: the manifest loaded and the verdict
    digest,       \* _compute_grimorium_hash: the listing read and the digest
    scan,         \* a discovery pass in progress: the file and where it is
    embedding     \* _get_embedding: a call, its attempts and what it returned

vars == <<registry, allowed, index, op, arg, found, all_matches, queried,
          store_calls, access, invoked, status, raised, upserts, passLog, log,
          faults, previous, policy, digest, scan, embedding>>

\* Python's None.
None == "None"

-----------------------------------------------------------------------------
(* Program constants.                                                      *)

\* self.top_spells
TopSpells == 5

\* self.distance_threshold, in tenths
DistanceThreshold == 4

\* The book of a spell whose module is not a discovered one.
DefaultBook == "default_grimorium"

\* The package prefix of a discovered module, split at the dots.
DiscoveredPrefix == <<"magetools", "discovered_spells">>

-----------------------------------------------------------------------------
(* The bounded universe: two collection directories, the spells their      *)
(* files can define, and the documentation those spells can carry.         *)

CollectionNames == {"weather", "other"}

\* hashlib.md5(docstring.encode("utf-8")).hexdigest(), on the docstrings of
\* the universe, and the md5 of the byte streams of its source files (the
\* digests are the real ones).
Md5(text) ==
    CASE text = "" -> "d41d8cd98f00b204e9800998ecf8427e"
      [] text = "Get the weather forecast." -> "06ca2da44873a922f756f66ceba36b68"
      [] text = "Get the forecast for a city." -> "ea05d1043c4101770ec4077d5c82fc32"
      [] text = "def foo(): pass" -> "0d08a78c5a946409d5b7b39ee565464f"
      [] text = "def bar(): pass" -> "585b3ca5230df20b809aa0be85ba9ea2"
      [] text = "def foo(): passdef foo(): pass" -> "78685de458d682e2861b11c0815eae70"
      [] text = "def foo(): passdef bar(): pass" -> "54cb1fa8d628ebb604fc08f49f658268"
      [] text = "def bar(): passdef foo(): pass" -> "25aad33bf23f09c3ca9483ba6fd98b94"
      [] text = "def bar(): passdef bar(): pass" -> "2e9d0c37e6bda420e9a2aaab14c922a8"

\* module_name of a file of a collection, split at the dots.
ModuleName(collection, stem) == DiscoveredPrefix \o <<collection, stem>>

\* A function object a discovery pass can find in a file of `collection`:
\* its __name__, __doc__, __module__ and, when the author set one, its
\* __magetools_collection__ attribute.
Func(collection, name, doc, override) ==
    [collection |-> collection, name |-> name, doc |-> doc,
     module |-> ModuleName(collection, "tools"), override |-> override]

\* The tagged functions the files on disk can hold, over time.
SpellsOnDisk ==
    { Func("weather", "get_forecast", d, o) :
        d \in {"Get the weather forecast.", "Get the forecast for a city."},
        o \in {None, "other"} }
    \cup { Func("other", "secret_spell", d, None) :
        d \in {None} }

\* key = f"{collection_name}.{obj.__name__}"
Key(f) == f.collection \o "." \o f.name

SpellNames == { Key(f) : f \in SpellsOnDisk }

\* allowed_collections: None, or a list of collection names (membership is
\* all the code asks of the list).
NoAllowList == [none |-> TRUE, names |-> {}]
AllowList(S) == [none |-> FALSE, names |-> S]

\* The values allowed_collections can be constructed with.
AllowLists == {NoAllowList} \cup { AllowList(S) : S \in SUBSET CollectionNames }

-----------------------------------------------------------------------------
(* manifest.json: the policy document of a collection directory.           *)

\* The capability names a manifest can list.
PolicyNames == {"get_forecast", "secret_spell"}

\* An optional list of names of a manifest: the key is absent, or it holds
\* a list (membership is all the policy asks of it).
NoList == [present |-> FALSE, names |-> {}]
ListOf(S) == [present |-> TRUE, names |-> S]
NameLists == {NoList} \cup { ListOf(S) : S \in SUBSET PolicyNames }

\* A manifest: "enabled" is absent, true or false; "whitelist" and
\* "blacklist" are optional lists.
Manifest(enabled, whitelist, blacklist) ==
    [enabled |-> enabled, whitelist |-> whitelist, blacklist |-> blacklist]

EmptyManifest == Manifest("absent", NoList, NoList)

Manifests ==
    { Manifest(e, w, b) : e \in {"absent", "true", "false"},
                          w \in NameLists, b \in NameLists }

\* What a collection directory holds as manifest.json: nothing, a text
\* that is not JSON, a JSON value that is not an object, or an object.
ManifestFile(kind, object) == [kind |-> kind, object |-> object]

NotObjects == {"missing", "invalid json", "array", "string", "null"}

ManifestFiles ==
    { ManifestFile(k, EmptyManifest) : k \in NotObjects }
    \cup { ManifestFile("object", m) : m \in Manifests }

\* What _load_manifest hands back: None or the manifest, or an exception.
NoManifest == [none |-> TRUE, manifest |-> EmptyManifest, raises |-> FALSE]
Loaded(m) == [none |-> FALSE, manifest |-> m, raises |-> FALSE]

\* No policy call was made.
NotAsked ==
    [file |-> ManifestFile("missing", EmptyManifest), loaded |-> NoManifest,
     name |-> None, permitted |-> FALSE]

\* No digest was computed.
NotHashed ==
    [listing |-> <<>>, value |-> None, before |-> [files |-> {}, value |-> None]]

\* No discovery pass is in progress.
NoScan == [collection |-> None, stem |-> None, members |-> <<>>, done |-> {}]

\* What _get_embedding returns: None, or the values of the first embedding
\* of the response for the text.
NoVector == [given |-> FALSE, of |-> None]
Vector(text) == [given |-> TRUE, of |-> text]

\* No call of _get_embedding has been made.
NotEmbedded ==
    [pc |-> "idle", text |-> None, max_retries |-> 0, attempt |-> 0,
     outcomes |-> <<>>, waited |-> 0, value |-> NoVector]

-----------------------------------------------------------------------------
(* Python dicts keep insertion order; a dict is a sequence of              *)
(* [key, value] records with distinct keys.                                *)

DictKeys(d) == { d[i].key : i \in DOMAIN d }

DictGet(d, k) == d[CHOOSE i \in DOMAIN d : d[i].key = k].value

\* d[k] = v: a new key goes last, an existing key keeps its place.
DictSet(d, k, v) ==
    IF k \in DictKeys(d)
    THEN [i \in DOMAIN d |-> IF d[i].key = k THEN [key |-> k, value |-> v] ELSE d[i]]
    ELSE Append(d, [key |-> k, value |-> v])

\* A dict as a mapping with no order: the vector store's collections.
EmptyMap == [k \in {} |-> None]

MapSet(m, k, v) == [x \in DOMAIN m \cup {k} |-> IF x = k THEN v ELSE m[x]]

\* A store call that raised: the call and the collection it was made on.
Fault(call, coll) == [call |-> call, coll |-> coll]

\* The permutations of a finite set, as sequences.
Orders(S) ==
    { p \in [1..Cardinality(S) -> S] : \A i, j \in DOMAIN p : p[i] = p[j] => i = j }

-----------------------------------------------------------------------------
(* The records an operation leaves behind; every operation resets the      *)
(* ones that are not its own.                                              *)

NoFind ==
    /\ found' = <<>> /\ all_matches' = <<>> /\ queried' = {}
    /\ store_calls' = <<>>
NoAccess == /\ access' = "none" /\ invoked' = FALSE /\ status' = "none"
NoSync == /\ upserts' = <<>> /\ passLog' = <<>> /\ previous' = "none"
NoPolicy == policy' = NotAsked
NoHash == digest' = NotHashed
NoEmbed == embedding' = NotEmbedded

TypeOK ==
    /\ \A i, j \in DOMAIN registry : registry[i].key = registry[j].key => i = j
    /\ allowed \in AllowLists
    /\ DOMAIN index \subseteq CollectionNames \cup {DefaultBook}
    /\ raised \in BOOLEAN
    /\ invoked \in BOOLEAN

\* The allow-lists of the runs in which nothing reads the allow-list.
SyncAllowLists == {NoAllowList, AllowList({"weather"})}

Init ==
    /\ registry = <<>>
    /\ allowed \in SyncAllowLists
    /\ index = EmptyMap
    /\ op = "construct"
    /\ arg = None
    /\ found = <<>> /\ all_matches = <<>> /\ queried = {}
    /\ store_calls = <<>>
    /\ access = "none" /\ invoked = FALSE /\ status = "none"
    /\ raised = FALSE
    /\ upserts = <<>> /\ passLog = <<>>
    /\ log = {}
    /\ faults = {}
    /\ previous = "none"
    /\ policy = NotAsked
    /\ digest = NotHashed
    /\ scan = NoScan
    /\ embedding = NotEmbedded

\* SpellSync.__init__: a fresh instance over the persistent store.
Construct ==
    /\ registry' = <<>>
    /\ allowed' \in SyncAllowLists
    /\ op' = "construct"
    /\ arg' = None
    /\ raised' = FALSE
    /\ log' = {}
    /\ faults' = {}
    /\ NoFind /\ NoAccess /\ NoSync /\ NoPolicy /\ NoHash
    /\ NoEmbed
    /\ UNCHANGED <<index, scan>>

-----------------------------------------------------------------------------
(* discover_and_load_spells                                                *)

\* registry[key] = obj, for every tagged object in visit order.
RECURSIVE RegisterAll(_, _)
RegisterAll(reg, objs) ==
    IF objs = <<>> THEN reg
    ELSE RegisterAll(DictSet(reg, Key(Head(objs)), Head(objs)), Tail(objs))

\* What one pass can find on disk: some of the spells, at most one object
\* per key, visited in any order.
Trees ==
    UNION { Orders(S) : S \in { T \in SUBSET SpellsOnDisk :
                \A f, g \in T : Key(f) = Key(g) => f = g } }

\* A member of a loaded module, as inspect.getmembers lists it: the name it
\* is bound to, the object's __name__, __doc__ and collection attribute,
\* whether register_spell tagged the object, the module the object was
\* defined in when that is not the file (None when it is), and whether
\* reading an attribute of the object raises.
Member(name, defname, doc, override, tagged) ==
    [name |-> name, defname |-> defname, doc |-> doc, override |-> override,
     tagged |-> tagged, origin |-> None, raises |-> FALSE]

\* The member, being an object whose attribute lookup raises an Exception
\* (a proxy that is not bound yet, a lazy object): the getattr of line 364
\* raises on it.
RaisesOnGetattr(member) == [member EXCEPT !.raises = TRUE]

\* The member, imported into the file from `module` (split at the dots):
\* the object keeps the __module__ it was defined in.
ImportedFrom(module, member) == [member EXCEPT !.origin = module]

\* A *.py file that rglob finds under a collection directory: its stem,
\* the directories between the collection directory and the file, how
\* loading it goes, and the members its module has once loaded.
\* "syntax error": ast.parse raises; "Exception": the top-level code
\* raises an Exception; "SystemExit": it raises a BaseException that is
\* not an Exception (sys.exit()).
PyFile(stem, loads, members) ==
    [stem |-> stem, parents |-> <<>>, loads |-> loads, members |-> members]

\* The file, in the subdirectory `dir` of where it was: rglob descends
\* into every subdirectory of the collection, whatever its name.
Nested(dir, file) == [file EXCEPT !.parents = <<dir>> \o @]

\* An entry of the root directory: its name, whether it is a directory,
\* its manifest.json and its *.py files in rglob's order.
Entry(name, is_dir, manifest, files) ==
    [name |-> name, is_dir |-> is_dir, manifest |-> manifest, files |-> files]

\* The search path: missing, a file, or a directory with its entries in
\* iterdir's order.
Root(kind, entries) == [kind |-> kind, entries |-> entries]

\* name.startswith((".", "_")), on the names of the universe.
HiddenNames == {"_cache", "_private", ".git", ".hidden", "_drafts"}
StartsWithDotOrUnderscore(name) == name \in HiddenNames

\* The function object a member of a file of `collection` is.
SpellObject(collection, stem, m) ==
    [Func(collection, m.defname, m.doc, m.override)
        EXCEPT !.module = IF m.origin = None THEN ModuleName(collection, stem)
                          ELSE m.origin]

\* getattr(obj, "_grimorium_spell", False) is True
IsSpell(m) == m.tagged

\* The scan of lines 363-373: registry[key] = obj for every tagged member.
RECURSIVE ScanMembers(_, _, _, _)
ScanMembers(members, collection, stem, reg) ==
    IF members = <<>> THEN reg
    ELSE LET obj == SpellObject(collection, stem, Head(members))
         IN  ScanMembers(Tail(members), collection, stem,
                         IF IsSpell(Head(members))
                         THEN DictSet(reg, Key(obj), obj) ELSE reg)

\* The members the loop of line 363 goes through before one raises.
RECURSIVE ScannedBeforeRaise(_)
ScannedBeforeRaise(members) ==
    IF members = <<>> \/ Head(members).raises THEN <<>>
    ELSE <<Head(members)>> \o ScannedBeforeRaise(Tail(members))

\* The scan of the file ends in the except clause of line 379.
ScanRaises(file) == \E i \in DOMAIN file.members : file.members[i].raises

\* Lines 363-380 for a module that was executed: the tagged members are
\* registered one by one; an Exception raised on the way is logged by the
\* except clause of the file, and what was registered before it stays.
ScanFile(file, collection, st) ==
    LET scanned == [st EXCEPT !.registry = ScanMembers(ScannedBeforeRaise(file.members),
                                                      collection, file.stem, @)]
    IN  IF ScanRaises(file)
        THEN [scanned EXCEPT !.log = @ \cup {[event |-> "warning: failed to load spells",
                                              subject |-> collection \o "/" \o file.stem \o ".py"]}]
        ELSE scanned

\* The path of a file below the root.
PathOf(collection, stem) == collection \o "/" \o stem \o ".py"

\* A loader whose syntax pre-check is not guarded.
LoadFileSyntaxErrorRaises(file, collection, st) ==
    IF StartsWithDotOrUnderscore(file.stem) THEN st
    ELSE IF file.loads \in {"syntax error", "SystemExit"}
    THEN [st EXCEPT !.raised = TRUE]
    ELSE IF file.loads = "Exception"
    THEN [st EXCEPT !.log = @ \cup {[event |-> "warning: failed to load spells",
                                     subject |-> PathOf(collection, file.stem)]}]
    ELSE ScanFile(file, collection, st)

\* Lines 333-380 for one file; `st` holds the registry, the log and
\* whether an exception has left the pass.
LoadFile(file, collection, st) ==
    IF StartsWithDotOrUnderscore(file.stem) THEN st
    ELSE IF file.loads = "syntax error"
    THEN [st EXCEPT !.log = @ \cup {[event |-> "warning: skipping file",
                                     subject |-> PathOf(collection, file.stem)]}]
    ELSE IF file.loads = "Exception"
    THEN [st EXCEPT !.log = @ \cup {[event |-> "warning: failed to load spells",
                                     subject |-> PathOf(collection, file.stem)]}]
    ELSE IF file.loads = "SystemExit"
    THEN [st EXCEPT !.raised = TRUE]
    ELSE ScanFile(file, collection, st)

\* The loop of line 332 over the files of a collection.
RECURSIVE LoadFiles(_, _, _)
LoadFiles(files, collection, st) ==
    IF files = <<>> \/ st.raised THEN st
    ELSE LoadFiles(Tail(files), collection, LoadFile(Head(files), collection, st))

\* The loop of line 325 over the entries of the root.
RECURSIVE LoadCollections(_, _)
LoadCollections(entries, st) ==
    IF entries = <<>> \/ st.raised THEN st
    ELSE LET e == Head(entries)
         IN  LoadCollections(Tail(entries),
                IF ~e.is_dir \/ StartsWithDotOrUnderscore(e.name) THEN st
                ELSE LoadFiles(e.files, e.name, st))

\* A pass that rebuilds the registry from nothing.
DiscoverRebuilding(root, reg) ==
    IF root.kind = "missing"
    THEN [registry |-> <<>>, raised |-> FALSE,
          log |-> {[event |-> "warning: directory not found", subject |-> None]}]
    ELSE IF root.kind = "file"
    THEN [registry |-> <<>>, raised |-> TRUE, log |-> {}]
    ELSE LoadCollections(root.entries, [registry |-> <<>>, raised |-> FALSE, log |-> {}])

\* discover_and_load_spells(root_path, registry): the registry, the
\* warnings logged and whether the call raised. On a path that is not a
\* directory, iterdir() raises NotADirectoryError.
Discover(root, reg) ==
    IF root.kind = "missing"
    THEN [registry |-> reg, raised |-> FALSE,
          log |-> {[event |-> "warning: directory not found", subject |-> None]}]
    ELSE IF root.kind = "file"
    THEN [registry |-> reg, raised |-> TRUE, log |-> {}]
    ELSE LoadCollections(root.entries, [registry |-> reg, raised |-> FALSE, log |-> {}])

\* The tree in which each spell of `tree` is alone in the file tools.py of
\* its collection.
RootOf(tree) ==
    Root("dir",
         [i \in DOMAIN tree |->
            Entry(tree[i].collection, TRUE, ManifestFile("missing", EmptyManifest),
                  <<PyFile("tools", "ok",
                           <<Member(tree[i].name, tree[i].name, tree[i].doc,
                                    tree[i].override, TRUE)>>)>>)])

\* The trees of the runs that synchronise: well-formed ones.
SyncRoots == { RootOf(tree) : tree \in Trees }

\* A discovery pass over a root of Roots; arg keeps the root and the
\* registry the pass started from.
DiscoverAndLoadSpells(Roots) ==
    \E root \in Roots :
        LET r == Discover(root, registry)
        IN  /\ registry' = r.registry
            /\ op' = "discover"
            /\ arg' = [root |-> root, before |-> registry]
            /\ raised' = r.raised
            /\ log' = r.log
            /\ faults' = {}
            /\ NoFind /\ NoAccess /\ NoSync /\ NoPolicy /\ NoHash
            /\ NoEmbed
            /\ UNCHANGED <<allowed, index, scan>>

\* The same pass, a statement at a time, for the callers that run while
\* it runs: the files whose module a pass in progress has just executed.
ScanFiles ==
    { [collection |-> "weather",
       file |-> PyFile("tools", "ok",
                       <<Member("get_alerts", "get_alerts", None, None, TRUE),
                         Member("get_forecast", "get_forecast",
                                "Get the weather forecast.", None, TRUE),
                         Member("helper", "helper", None, None, FALSE)>>)],
      [collection |-> "other",
       file |-> PyFile("tools", "ok",
                       <<Member("secret_spell", "secret_spell", None, None, TRUE)>>)] }

\* What a step of the pass leaves in the records of the operations.
ScanRecord ==
    /\ op' = "scan"
    /\ arg' = None
    /\ raised' = FALSE
    /\ log' = {}
    /\ faults' = {}
    /\ NoFind /\ NoAccess /\ NoSync /\ NoPolicy /\ NoHash
    /\ NoEmbed
    /\ UNCHANGED <<allowed, index>>

\* spec.loader.exec_module(module) has returned and inspect.getmembers
\* lists the members of the module (lines 359-363).
ScanStart ==
    /\ scan = NoScan
    /\ embedding = NotEmbedded
    /\ \E s \in ScanFiles :
          scan' = [collection |-> s.collection, stem |-> s.file.stem,
                   members |-> s.file.members, done |-> {}]
    /\ UNCHANGED registry
    /\ ScanRecord

\* One turn of the loop of lines 363-373: registry[key] = obj when the
\* member is tagged. Nothing is held while the registry is written.
ScanStep ==
    /\ scan # NoScan
    /\ scan.members # <<>>
    /\ LET member == Head(scan.members)
           obj == SpellObject(scan.collection, scan.stem, member)
       IN  /\ registry' = IF IsSpell(member)
                             THEN DictSet(registry, Key(obj), obj) ELSE registry
           /\ scan' = [scan EXCEPT !.members = Tail(@),
                                   !.done = IF IsSpell(member)
                                            THEN @ \cup {Key(obj)} ELSE @]
    /\ ScanRecord

\* The loop is over and the pass goes on to return.
ScanEnd ==
    /\ scan # NoScan
    /\ scan.members = <<>>
    /\ scan' = NoScan
    /\ UNCHANGED registry
    /\ ScanRecord

-----------------------------------------------------------------------------
(* sync_spells                                                             *)

\* The book of a spell: parts[2] of a discovered module's name, else the
\* default; a __magetools_collection__ attribute overrides both.
BookOf(f) ==
    LET parts == f.module
        derived ==
            IF /\ f.module # None
               /\ Len(parts) >= 3
               /\ SubSeq(parts, 1, 2) = DiscoveredPrefix
            THEN parts[3]
            ELSE DefaultBook
    IN  IF f.override # None THEN f.override ELSE derived

\* book_buckets: book -> the (spell_name, spell_func) pairs of the book, the
\* books in the order their first spell comes in the registry.
RECURSIVE BookBuckets(_, _)
BookBuckets(spells, buckets) ==
    IF spells = <<>> THEN buckets
    ELSE LET s == Head(spells)
             book == BookOf(s.value)
             sofar == IF book \in DictKeys(buckets) THEN DictGet(buckets, book) ELSE <<>>
         IN  BookBuckets(Tail(spells), DictSet(buckets, book, Append(sofar, s)))

\* docstring = spell_func.__doc__ or ""
Docstring(f) == IF f.doc = None THEN "" ELSE f.doc

CurrentHash(f) == Md5(Docstring(f))

\* The store calls of one book's synchronisation that can raise.
StoreCalls == {"get_or_create_collection", "get", "upsert"}

\* vector_store.get_or_create_collection(name)
GetOrCreateCollection(idx, book) ==
    IF book \in DOMAIN idx THEN idx ELSE MapSet(idx, book, EmptyMap)

\* A fetch whose failure leaves the stored hashes to be used as they are.
ExistingHashesDespiteFailure(entries, failing) == entries

\* existing_hashes: id -> meta["hash"] of what collection.get returned, and
\* {} when the call raised.
ExistingHashes(entries, failing) ==
    IF "get" \in failing THEN EmptyMap ELSE entries

\* A test that compares the stored hash with the docstring itself.
UpToDateAgainstText(existing, spell) ==
    /\ spell.key \in DOMAIN existing
    /\ existing[spell.key] = Docstring(spell.value)

\* A test that looks for the id only, whatever hash is stored with it.
UpToDateIfPresent(existing, spell) == spell.key \in DOMAIN existing

\* The test of lines 277-280: the stored hash is the current one.
UpToDate(existing, spell) ==
    /\ spell.key \in DOMAIN existing
    /\ existing[spell.key] = CurrentHash(spell.value)

\* A staging whose test is inverted: the spells that are up to date.
StagedIdsUpToDate(spells, existing) ==
    LET staged == SelectSeq(spells, LAMBDA s : UpToDate(existing, s))
    IN  [i \in DOMAIN staged |-> staged[i].key]

\* ids: the spells of the book staged for the upsert, in order.
StagedIds(spells, existing) ==
    LET staged == SelectSeq(spells, LAMBDA s : ~UpToDate(existing, s))
    IN  [i \in DOMAIN staged |-> staged[i].key]

\* An upsert whose metadata carries the hash of an empty text.
UpsertEntriesEmptyHash(entries, spells, ids) ==
    LET staged == { ids[i] : i \in DOMAIN ids }
    IN  [id \in DOMAIN entries \cup staged |->
            IF id \in staged THEN Md5("") ELSE entries[id]]

\* collection.upsert(ids, documents, metadatas), on the entries of a collection
UpsertEntries(entries, spells, ids) ==
    LET staged == { ids[i] : i \in DOMAIN ids }
    IN  [id \in DOMAIN entries \cup staged |->
            IF id \in staged THEN CurrentHash(DictGet(spells, id)) ELSE entries[id]]

\* An upsert issued from inside the loop over the spells, one id a call.
UpsertCallsPerSpell(book, ids) ==
    [i \in DOMAIN ids |-> [book |-> book, ids |-> <<ids[i]>>]]

\* The upsert calls of one book: one call for all the staged ids, and none
\* when nothing is staged.
UpsertCalls(book, ids) ==
    IF ids # <<>> THEN <<[book |-> book, ids |-> ids]>> ELSE <<>>

\* What the index holds for the spells of a book when the pass comes to
\* the book: the stored hash, or None.
StoredBefore(idx, book, spells) ==
    [k \in DictKeys(spells) |->
        IF book \in DOMAIN idx /\ k \in DOMAIN idx[book] THEN idx[book][k] ELSE None]

\* The body of the loop over the books (lines 252-295), for one book; `st`
\* is the pass so far, `failing` the store calls that raise for this book.
\* exc says whether the body ended in an exception.
SyncBook(book, spells, failing, st) ==
    IF "get_or_create_collection" \in failing
    THEN [st EXCEPT !.exc = TRUE,
                    !.faults = @ \cup {Fault("get_or_create_collection", book)},
                    !.passLog = Append(@, [book |-> book, ids |-> <<>>, skipped |-> 0,
                                           stored |-> StoredBefore(st.index, book, spells),
                                           done |-> FALSE])]
    ELSE
    LET idx == GetOrCreateCollection(st.index, book)
        existing == ExistingHashes(idx[book], failing)
        ids == StagedIds(spells, existing)
        skipped == Len(spells) - Len(ids)
        calls == UpsertCalls(book, ids)
        failed == calls # <<>> /\ "upsert" \in failing
    IN  [st EXCEPT !.exc = failed,
                   !.faults = @ \cup (IF "get" \in failing THEN {Fault("get", book)} ELSE {})
                                \cup (IF failed THEN {Fault("upsert", book)} ELSE {}),
                   !.index = IF calls = <<>> \/ failed THEN idx
                             ELSE MapSet(idx, book, UpsertEntries(idx[book], spells, ids)),
                   !.upserts = @ \o calls,
                   !.passLog = Append(@, [book |-> book, ids |-> ids, skipped |-> skipped,
                                          stored |-> StoredBefore(st.index, book, spells),
                                          done |-> ~failed])]

\* except Exception as e: logger.error(...) (lines 297-298)
SyncFailureLogged(book, st) ==
    [st EXCEPT !.exc = FALSE,
               !.log = @ \cup {[event |-> "error: failed to sync collection", subject |-> book]}]

\* A loop whose try block encloses the loop: the first failure ends the pass.
RECURSIVE SyncBucketsUntilFailure(_, _, _)
SyncBucketsUntilFailure(buckets, fails, st) ==
    IF buckets = <<>> THEN st
    ELSE LET b == Head(buckets)
             r == SyncBook(b.key, b.value, fails[b.key], st)
         IN  IF r.exc THEN SyncFailureLogged(b.key, r)
             ELSE SyncBucketsUntilFailure(Tail(buckets), fails, r)

\* for book_name, spells in book_buckets.items(): try ... except (lines 249-298)
RECURSIVE SyncBuckets(_, _, _)
SyncBuckets(buckets, fails, st) ==
    IF buckets = <<>> THEN st
    ELSE LET b == Head(buckets)
             r == SyncBook(b.key, b.value, fails[b.key], st)
         IN  SyncBuckets(Tail(buckets), fails,
                         IF r.exc THEN SyncFailureLogged(b.key, r) ELSE r)

\* The failures of the store calls that tell one book's outcome from another.
FailureModes ==
    { F \in SUBSET StoreCalls : "get_or_create_collection" \in F => F = {"get_or_create_collection"} }

SyncSpells ==
    LET buckets == BookBuckets(registry, <<>>)
        start == [index |-> index, upserts |-> <<>>, passLog |-> <<>>, log |-> {},
                  faults |-> {}, exc |-> FALSE]
    IN  \E fails \in [DictKeys(buckets) -> FailureModes] :
            LET end == IF registry = <<>> THEN start
                       ELSE SyncBuckets(buckets, fails, start)
            IN  /\ index' = end.index
                /\ upserts' = end.upserts
                /\ passLog' = end.passLog
                /\ log' = end.log
                /\ faults' = end.faults
                /\ raised' = end.exc
                /\ op' = "sync"
                /\ previous' = IF op # "sync" THEN "other"
                                ELSE IF faults = {} THEN "sync" ELSE "failed sync"
                /\ arg' = None
                /\ NoFind /\ NoAccess /\ NoPolicy /\ NoHash
                /\ NoEmbed
                /\ UNCHANGED <<registry, allowed, scan>>

-----------------------------------------------------------------------------
(* python -m magetools scan (src/magetools/__main__.py).                   *)

\* What print writes to the terminal, as a record of the log.
Printed(text) == [event |-> "print", subject |-> text]

\* SpellSync() builds its embedding provider and its vector store (lines
\* 79-90 of spellsync.py): it returns an instance, or raises when
\* google-genai or chromadb is missing.
Constructions == {"instance", "raises"}

\* scan_spells(): discovery fills the local dict `registry` (lines 68-69);
\* an empty dict ends the command (71-79); otherwise the keys are printed
\* and a new SpellSync(), whose registry is the {} of its __init__, runs
\* sync_spells (85-93). The instance of the model is the one the command
\* built, arg keeps the root that was scanned.
ScanSpells(Roots) ==
    \E root \in Roots, built \in Constructions :
        LET discovered == Discover(root, <<>>)
            spell_sync == [registry |-> <<>>]
            buckets == BookBuckets(spell_sync.registry, <<>>)
            start == [index |-> index, upserts |-> <<>>, passLog |-> <<>>,
                      log |-> {}, faults |-> {}, exc |-> FALSE]
            synced == ~discovered.raised /\ discovered.registry # <<>>
                      /\ built = "instance"
        IN  \E fails \in [DictKeys(buckets) -> FailureModes] :
                LET end == IF ~synced \/ spell_sync.registry = <<>> THEN start
                           ELSE SyncBuckets(buckets, fails, start)
                IN  /\ registry' = spell_sync.registry
                    /\ index' = end.index
                    /\ upserts' = end.upserts
                    /\ passLog' = end.passLog
                    /\ faults' = end.faults
                    /\ raised' = discovered.raised
                    /\ log' = discovered.log \cup end.log \cup
                          (IF discovered.raised THEN {}
                           ELSE IF discovered.registry = <<>>
                           THEN {Printed("No spells loaded!")}
                           ELSE {Printed("Found"), Printed("Syncing to vector store..."),
                                 IF built = "instance"
                                 THEN Printed("Sync complete!")
                                 ELSE Printed("Sync failed")})
                    /\ op' = "scan_spells"
                    /\ arg' = [root |-> root, before |-> <<>>]
                    /\ previous' = "none"
                    /\ NoFind /\ NoAccess /\ NoPolicy /\ NoHash
                    /\ NoEmbed
                    /\ UNCHANGED <<allowed, scan>>

-----------------------------------------------------------------------------
(* find_matching_spells                                                    *)

\* A query argument: its Python type and, for a str, its characters.
Query(type, text) == [type |-> type, text |-> text]

Queries ==
    { Query("NoneType", <<>>), Query("int", <<>>), Query("str", <<>>),
      Query("str", <<" ", " ">>), Query("str", <<" ", "w", " ">>),
      Query("str", <<"w", "f">>) }

Whitespace == {" ", "\t", "\n"}

\* str.strip()
RECURSIVE LStrip(_)
LStrip(text) ==
    IF text # <<>> /\ Head(text) \in Whitespace THEN LStrip(Tail(text)) ELSE text

RECURSIVE RStrip(_)
RStrip(text) ==
    IF text # <<>> /\ text[Len(text)] \in Whitespace
    THEN RStrip(SubSeq(text, 1, Len(text) - 1)) ELSE text

Strip(text) == RStrip(LStrip(text))

\* bool(query): None and "" are falsy, a non-zero int is truthy
Truthy(q) == (q.type = "str" /\ q.text # <<>>) \/ q.type = "int"

\* A test that takes a string of blanks for a query.
ValidQueryUnstripped(q) == Truthy(q) /\ q.type = "str"

\* The negation of the test of line 117.
ValidQuery(q) == Truthy(q) /\ q.type = "str" /\ Strip(q.text) # <<>>

\* A search that leaves the allow-list out.
CollectionEligibleUnfiltered(allow, coll) == TRUE

\* A search that tests the allow-list for truth: [] filters nothing.
CollectionEligibleFalsyList(allow, coll) ==
    allow.none \/ allow.names = {} \/ coll \in allow.names

\* The test of lines 136-138: the collection is not skipped.
CollectionEligible(allow, coll) == allow.none \/ coll \in allow.names

\* A call find_matching_spells made on the store, with what a query
\* returned.
Call(call, coll, result) == [call |-> call, coll |-> coll, result |-> result]

\* The ways the search of one collection can go wrong (lines 140-162):
\* get_collection raises; query raises; the result has no "ids" or no
\* "distances" key (KeyError); the result is None; the result's distances
\* are fewer than its ids (IndexError at dists[i]).
SearchFailures == {"get_collection", "query", "keys", "none", "distances"}

\* The failures that raise into the except clause of line 161.
Raising == SearchFailures \ {"none"}

\* What the store can answer to collection.query(n_results) on a
\* collection: n_results of the entries (all of them when there are
\* fewer), each with a distance of Dists, in its order, or one of the
\* failures of `Failures`. `kept` is the number of (id, distance) pairs the
\* loop of lines 157-159 appends before it ends or raises.
StoreAnswers(entries, n_results, Dists, Failures) ==
    LET n == IF Cardinality(DOMAIN entries) < n_results
             THEN Cardinality(DOMAIN entries) ELSE n_results
        Hits == { [i \in 1..n |-> [id |-> ids[i], dist |-> d[i]]] :
                    ids \in { p \in [1..n -> DOMAIN entries] :
                                \A i, j \in 1..n : p[i] = p[j] => i = j },
                    d \in [1..n -> Dists] }
    IN  { [fails |-> "no", hits |-> h, kept |-> Len(h)] : h \in Hits }
        \cup { [fails |-> f, hits |-> <<>>, kept |-> 0] :
                 f \in Failures \ {"distances"} }
        \cup { [fails |-> f, hits |-> h, kept |-> k] :
                 f \in Failures \cap {"distances"},
                 h \in Hits, k \in 0..(n - 1) }

\* A search that asks each collection for one candidate fewer than it
\* returns at most.
NResultsFewer == TopSpells - 1

\* n_results=self.top_spells (line 149)
NResults == TopSpells

\* One answer for each collection of `colls`.
RECURSIVE Answers(_, _, _, _)
Answers(colls, idx, Dists, Failures) ==
    IF colls = {} THEN {EmptyMap}
    ELSE LET c == CHOOSE c \in colls : TRUE
         IN  { MapSet(r, c, a) : r \in Answers(colls \ {c}, idx, Dists, Failures),
                                 a \in StoreAnswers(idx[c], NResults, Dists, Failures) }

\* A search in which the pairs read before a failure are dropped with it.
AppendedBeforeFailureNone(a) == IF a.fails = "no" THEN a.hits ELSE <<>>

\* The pairs lines 157-159 append to all_matches for one collection: the
\* appends made before an exception stay.
AppendedBeforeFailure(a) == SubSeq(a.hits, 1, a.kept)

\* The loop of lines 132-162 over the collections listed; `st` holds
\* all_matches, the collections queried, the store calls, the failures and
\* the log.
RECURSIVE SearchCollections(_, _, _, _)
SearchCollections(listing, allow, answers, st) ==
    IF listing = <<>> THEN st
    ELSE LET coll == Head(listing)
             a == answers[coll]
             made == IF a.fails = "get_collection"
                     THEN <<Call("get_collection", coll, <<>>)>>
                     ELSE <<Call("get_collection", coll, <<>>),
                            Call("query", coll, a.hits)>>
             asked == [st EXCEPT !.queried = @ \cup {coll},
                                 !.store_calls = @ \o made,
                                 !.all_matches = @ \o AppendedBeforeFailure(a)]
             next ==
               IF ~CollectionEligible(allow, coll) THEN st
               ELSE IF a.fails \in Raising
               THEN [asked EXCEPT !.faults = @ \cup {Fault(a.fails, coll)},
                                  !.log = @ \cup {[event |-> "warning: failed to search collection",
                                                   subject |-> coll]}]
               ELSE asked
         IN  SearchCollections(Tail(listing), allow, answers, next)

\* A deduplication in which the last distance seen wins.
ReplacesAlways(map, match) == TRUE

\* The test of lines 167-170: the id is new, or the distance is lower.
Replaces(map, match) ==
    \/ match.id \notin DictKeys(map)
    \/ match.dist < DictGet(map, match.id)

\* unique_matches_map (lines 165-171)
RECURSIVE UniqueMatchesMap(_, _)
UniqueMatchesMap(matches, map) ==
    IF matches = <<>> THEN map
    ELSE LET m == Head(matches)
         IN  UniqueMatchesMap(Tail(matches),
                              IF Replaces(map, m) THEN DictSet(map, m.id, m.dist) ELSE map)

\* A sort that is not stable: an item goes before the items of equal key.
InsertSortedBeforeEqual(sorted, item) ==
    LET k == Cardinality({ i \in DOMAIN sorted : sorted[i].value < item.value })
    IN  SubSeq(sorted, 1, k) \o <<item>> \o SubSeq(sorted, k + 1, Len(sorted))

\* Where sorted() puts an item among the items sorted so far that came
\* before it: after every item whose key is not greater (the sort is stable).
InsertSorted(sorted, item) ==
    LET k == Cardinality({ i \in DOMAIN sorted : sorted[i].value <= item.value })
    IN  SubSeq(sorted, 1, k) \o <<item>> \o SubSeq(sorted, k + 1, Len(sorted))

\* sorted(unique_matches_map.items(), key=lambda x: x[1])
RECURSIVE SortedMatches(_)
SortedMatches(items) ==
    IF items = <<>> THEN <<>>
    ELSE InsertSorted(SortedMatches(SubSeq(items, 1, Len(items) - 1)), items[Len(items)])

\* A filter that drops a distance equal to the threshold.
WithinThresholdStrict(match) == match.value < DistanceThreshold

\* The test of line 181.
WithinThreshold(match) == match.value <= DistanceThreshold

\* filtered_matches (lines 180-182)
FilteredMatches(sorted) == SelectSeq(sorted, WithinThreshold)

\* A result that is not cut at top_spells.
TopIdsUntruncated(filtered) == [i \in DOMAIN filtered |-> filtered[i].key]

\* [match[0] for match in filtered_matches][: self.top_spells]
TopIds(filtered) ==
    LET n == IF Len(filtered) < TopSpells THEN Len(filtered) ELSE TopSpells
    IN  [i \in 1..n |-> filtered[i].key]

\* Lines 164-185: from all_matches to the list returned.
RankMatches(matches) ==
    TopIds(FilteredMatches(SortedMatches(UniqueMatchesMap(matches, <<>>))))

\* The listings list_collections() can return: the collections of the
\* store in any order.
Listings(idx) == Orders(DOMAIN idx)

FindRecord(q, matches, asked, made, events, raising) ==
    /\ found' = RankMatches(matches)
    /\ all_matches' = matches
    /\ queried' = asked
    /\ store_calls' = made
    /\ log' = events
    /\ faults' = raising
    /\ op' = "find"
    /\ arg' = q
    /\ raised' = FALSE
    /\ NoAccess /\ NoSync /\ NoPolicy /\ NoHash
    /\ NoEmbed
    /\ UNCHANGED <<registry, allowed, index, scan>>

\* find_matching_spells(query), for a query of Qs and a store whose
\* distances are in Dists and whose searches can fail as Failures say.
FindMatchingSpells(Qs, Dists, Failures) ==
    \E q \in Qs :
        \/ /\ ~ValidQuery(q)
           /\ FindRecord(q, <<>>, {}, <<>>,
                         {[event |-> "error: invalid query", subject |-> None]}, {})
        \/ /\ ValidQuery(q)
           \* list_collections() raises
           /\ FindRecord(q, <<>>, {}, <<Call("list_collections", None, <<>>)>>,
                         {[event |-> "error: failed to list collections",
                           subject |-> None]},
                         {Fault("list_collections", None)})
        \/ /\ ValidQuery(q)
           /\ \E listing \in Listings(index) :
              \E answers \in Answers({ c \in DOMAIN index : CollectionEligible(allowed, c) },
                                     index, Dists, Failures) :
                LET end == SearchCollections(listing, allowed, answers,
                              [all_matches |-> <<>>, queried |-> {},
                               store_calls |-> <<Call("list_collections", None, <<>>)>>,
                               log |-> {}, faults |-> {}])
                IN  FindRecord(q, end.all_matches, end.queried, end.store_calls,
                               end.log, end.faults)

\* The distances the store reports where only the side of the threshold
\* matters: one within it and one beyond it.
ThresholdDistances == {DistanceThreshold, DistanceThreshold + 1}

Find == FindMatchingSpells(Queries, ThresholdDistances, {"query"})

\* The largest distance the store reports where the ranking is checked.
MaxDist == 5

\* The answers of a store that searches exactly: the n nearest ids of a
\* collection (all of them when there are fewer) by the distances `dist`
\* of its entries to the query, nearest first, ids at the same distance in
\* any order.
RECURSIVE NearestLists(_, _, _)
NearestLists(ids, dist, n) ==
    IF n = 0 \/ ids = {} THEN {<<>>}
    ELSE UNION { { <<[id |-> x, dist |-> dist[x]]>> \o rest :
                     rest \in NearestLists(ids \ {x}, dist, n - 1) } :
                 x \in { y \in ids : \A z \in ids : dist[y] <= dist[z] } }

\* One such answer for each collection of `colls`.
RECURSIVE NearestAnswers(_, _, _)
NearestAnswers(colls, idx, table) ==
    IF colls = {} THEN {EmptyMap}
    ELSE LET c == CHOOSE c \in colls : TRUE
         IN  { MapSet(r, c, [fails |-> "no", hits |-> h, kept |-> Len(h)]) :
                 r \in NearestAnswers(colls \ {c}, idx, table),
                 h \in NearestLists(DOMAIN idx[c], table[c], NResults) }

\* find_matching_spells(query) over a store that searches exactly and
\* does not fail; arg keeps, with the query, the distance of every entry
\* of the store to it.
FindNearest(Tables) ==
    \E table \in Tables, listing \in Listings(index) :
    \E answers \in NearestAnswers({ c \in DOMAIN index : CollectionEligible(allowed, c) },
                                  index, table) :
        LET q == [type |-> "str", text |-> <<"w", "f">>, distances |-> table]
            end == SearchCollections(listing, allowed, answers,
                      [all_matches |-> <<>>, queried |-> {},
                       store_calls |-> <<Call("list_collections", None, <<>>)>>,
                       log |-> {}, faults |-> {}])
        IN  FindRecord(q, end.all_matches, end.queried, end.store_calls,
                       end.log, end.faults)

\* One search on a fresh instance, over every distance up to MaxDist (a
\* search changes nothing a later search reads).
FindRanked ==
    /\ op = "construct"
    /\ FindMatchingSpells({Query("str", <<>>), Query("str", <<"w", "f">>)},
                          0..MaxDist, {"query"})

-----------------------------------------------------------------------------
(* validate_spell_access and Grimorium.execute_spell                       *)

\* collection.get(ids=[spell_name]) finds the id in an allowed collection;
\* `failing` are the collections on which a store call raises, as
\* get_collection does on a collection that does not exist.
FoundIn(idx, failing, coll, spell_name) ==
    /\ coll \in DOMAIN idx
    /\ coll \notin failing
    /\ spell_name \in DOMAIN idx[coll]

\* An access check that wants the id in every collection of the allow-list.
ValidateSpellAccessEveryCollection(allow, idx, failing, spell_name) ==
    IF allow.none THEN [granted |-> TRUE, raises |-> FALSE, log |-> {}]
    ELSE IF \A coll \in allow.names : FoundIn(idx, failing, coll, spell_name)
    THEN [granted |-> TRUE, raises |-> FALSE, log |-> {}]
    ELSE [granted |-> FALSE, raises |-> FALSE,
          log |-> {[event |-> "warning: access denied", subject |-> spell_name]}]

\* An access check that takes an empty allow-list for no allow-list.
ValidateSpellAccessFalsyList(allow, idx, failing, spell_name) ==
    IF allow.none \/ allow.names = {}
    THEN [granted |-> TRUE, raises |-> FALSE, log |-> {}]
    ELSE IF \E coll \in allow.names : FoundIn(idx, failing, coll, spell_name)
    THEN [granted |-> TRUE, raises |-> FALSE, log |-> {}]
    ELSE [granted |-> FALSE, raises |-> FALSE,
          log |-> {[event |-> "warning: access denied", subject |-> spell_name]}]

\* An access check without the try blocks of lines 192-215: a store call
\* that raises leaves the check as an exception.
ValidateSpellAccessUncaught(allow, idx, failing, spell_name) ==
    IF allow.none THEN [granted |-> TRUE, raises |-> FALSE, log |-> {}]
    ELSE IF \E coll \in allow.names : coll \in failing \/ coll \notin DOMAIN idx
    THEN [granted |-> FALSE, raises |-> TRUE, log |-> {}]
    ELSE IF \E coll \in allow.names : FoundIn(idx, failing, coll, spell_name)
    THEN [granted |-> TRUE, raises |-> FALSE, log |-> {}]
    ELSE [granted |-> FALSE, raises |-> FALSE,
          log |-> {[event |-> "warning: access denied", subject |-> spell_name]}]

\* validate_spell_access(spell_name): the value returned, whether the
\* call raised instead, and the log. The store calls of a collection are
\* in a try block of their own, and the whole check in another.
ValidateSpellAccess(allow, idx, failing, spell_name) ==
    IF allow.none THEN [granted |-> TRUE, raises |-> FALSE, log |-> {}]
    ELSE IF \E coll \in allow.names : FoundIn(idx, failing, coll, spell_name)
    THEN [granted |-> TRUE, raises |-> FALSE, log |-> {}]
    ELSE [granted |-> FALSE, raises |-> FALSE,
          log |-> {[event |-> "warning: access denied", subject |-> spell_name]}]

\* The collections of the allow-list on which the store raises.
AccessFaults(allow, failing) ==
    IF allow.none THEN {} ELSE { Fault("get", coll) : coll \in allow.names \cap failing }

\* An access check that opens its collections with get_or_create_collection.
ValidateCreating ==
    \E spell_name \in SpellNames, failing \in SUBSET CollectionNames :
        LET r == ValidateSpellAccess(allowed, index, failing, spell_name)
            opened == IF allowed.none THEN {} ELSE allowed.names \ failing
        IN  /\ access' = IF r.granted THEN "granted" ELSE "denied"
            /\ invoked' = FALSE
            /\ status' = "none"
            /\ log' = r.log
            /\ faults' = AccessFaults(allowed, failing)
            /\ op' = "validate"
            /\ arg' = spell_name
            /\ raised' = r.raises
            /\ index' = [c \in DOMAIN index \cup opened |->
                            IF c \in DOMAIN index THEN index[c] ELSE EmptyMap]
            /\ NoFind /\ NoSync /\ NoPolicy /\ NoHash
            /\ NoEmbed
            /\ UNCHANGED <<registry, allowed, scan>>

Validate ==
    \E spell_name \in SpellNames, failing \in SUBSET CollectionNames :
        LET r == ValidateSpellAccess(allowed, index, failing, spell_name)
        IN  /\ access' = IF r.raises THEN "none"
                          ELSE IF r.granted THEN "granted" ELSE "denied"
            /\ invoked' = FALSE
            /\ status' = "none"
            /\ log' = r.log
            /\ faults' = AccessFaults(allowed, failing)
            /\ op' = "validate"
            /\ arg' = spell_name
            /\ raised' = r.raises
            /\ NoFind /\ NoSync /\ NoPolicy /\ NoHash
            /\ NoEmbed
            /\ UNCHANGED <<registry, allowed, index, scan>>

\* How the call of a spell's function can end.
CallOutcomes == {"returns", "TypeError", "Exception"}

\* A lookup made before, and whatever, the access check says.
SpellLookupUnchecked(granted, reg, spell_name) ==
    IF spell_name \notin DictKeys(reg) THEN "not found" ELSE "call"

\* The decision of lines 184-197 of grimorium.py: "denied", "not found", or
\* "call" when spell_func is looked up and the second try block is entered.
SpellLookup(granted, reg, spell_name) ==
    IF ~granted THEN "denied"
    ELSE IF spell_name \notin DictKeys(reg) THEN "not found"
    ELSE "call"

\* Grimorium.execute_spell(spell_name, arguments, tool_context)
ExecuteSpell ==
    \E spell_name \in SpellNames, failing \in SUBSET CollectionNames,
       outcome \in CallOutcomes :
        LET r == ValidateSpellAccess(allowed, index, failing, spell_name)
            decision == IF r.raises THEN "raise"
                        ELSE SpellLookup(r.granted, registry, spell_name)
        IN  /\ access' = IF r.raises THEN "none"
                          ELSE IF r.granted THEN "granted" ELSE "denied"
            /\ invoked' = (decision = "call")
            /\ status' = IF decision = "raise" THEN "none"
                         ELSE IF decision = "call" /\ outcome = "returns"
                         THEN "success" ELSE "error"
            /\ log' = r.log \cup
                  IF decision = "call" /\ outcome # "returns"
                  THEN {[event |-> "error: spell failed", subject |-> spell_name]}
                  ELSE {}
            /\ faults' = AccessFaults(allowed, failing)
            /\ op' = "execute"
            /\ arg' = spell_name
            /\ raised' = r.raises
            /\ NoFind /\ NoSync /\ NoPolicy /\ NoHash
            /\ NoEmbed
            /\ UNCHANGED <<registry, allowed, index, scan>>

-----------------------------------------------------------------------------
(* The manifest policy: _load_manifest and _is_spell_allowed               *)

\* A loader that lets json.load's exception out.
LoadManifestUncaught(file) ==
    IF file.kind = "object" THEN Loaded(file.object)
    ELSE IF file.kind = "invalid json"
    THEN [none |-> TRUE, manifest |-> EmptyManifest, raises |-> TRUE]
    ELSE NoManifest

\* _load_manifest(directory): None when manifest.json is missing, is not
\* JSON or is not a JSON object; the object otherwise. It never raises.
LoadManifest(file) ==
    IF file.kind = "missing" THEN NoManifest
    ELSE IF file.kind = "invalid json" THEN NoManifest
    ELSE IF file.kind # "object" THEN NoManifest
    ELSE Loaded(file.object)

\* A policy that takes an empty whitelist for no whitelist.
IsSpellAllowedFalsyWhitelist(name, loaded) ==
    LET m == loaded.manifest
    IN  IF loaded.none THEN TRUE
        ELSE IF m.enabled = "false" THEN FALSE
        ELSE IF m.whitelist.names # {} /\ name \notin m.whitelist.names THEN FALSE
        ELSE IF m.blacklist.present /\ name \in m.blacklist.names THEN FALSE
        ELSE TRUE

\* A policy in which a whitelisted name is allowed at once.
IsSpellAllowedWhitelistWins(name, loaded) ==
    LET m == loaded.manifest
    IN  IF loaded.none THEN TRUE
        ELSE IF m.enabled = "false" THEN FALSE
        ELSE IF m.whitelist.present
        THEN name \in m.whitelist.names
        ELSE ~(m.blacklist.present /\ name \in m.blacklist.names)

\* The rules of the policy after the tests for no manifest and for a
\* disabled collection: the whitelist, then the blacklist.
ListsAllow(name, m) ==
    IF m.whitelist.present /\ name \notin m.whitelist.names THEN FALSE
    ELSE IF m.blacklist.present /\ name \in m.blacklist.names THEN FALSE
    ELSE TRUE

\* _is_spell_allowed(name, manifest)
IsSpellAllowed(name, loaded) ==
    IF loaded.none THEN TRUE
    ELSE IF loaded.manifest.enabled = "false" THEN FALSE
    ELSE ListsAllow(name, loaded.manifest)

PolicyRecord(called, file, loaded, name, permitted) ==
    /\ policy' = [file |-> file, loaded |-> loaded, name |-> name,
                  permitted |-> permitted]
    /\ op' = called
    /\ arg' = None
    /\ raised' = loaded.raises
    /\ log' = {}
    /\ faults' = {}
    /\ NoFind /\ NoAccess /\ NoSync /\ NoHash
    /\ NoEmbed
    /\ UNCHANGED <<registry, allowed, index, scan>>

\* _load_manifest(directory), for every manifest.json of the universe.
LoadManifestCall ==
    \E file \in ManifestFiles :
        PolicyRecord("load_manifest", file, LoadManifest(file), None, FALSE)

\* _is_spell_allowed(name, _load_manifest(directory)): the policy on what
\* the loader handed back.
IsSpellAllowedCall ==
    \E file \in ManifestFiles, name \in PolicyNames :
        LET loaded == LoadManifest(file)
        IN  /\ ~loaded.raises
            /\ PolicyRecord("is_spell_allowed", file, loaded, name,
                            IsSpellAllowed(name, loaded))

-----------------------------------------------------------------------------
(* _compute_grimorium_hash: the digest of a collection directory.          *)

\* A source file of a collection directory: its name and its bytes.
DirFile(name, bytes) == [name |-> name, bytes |-> bytes]

\* The files a directory of the universe can hold: two spell files, each
\* with either of two contents, a private file and a hidden one.
DirFiles ==
    { DirFile(n, b) : n \in {"runes", "spell"},
                      b \in {"def foo(): pass", "def bar(): pass"} }
    \cup { DirFile("_private", "secret"), DirFile(".hidden", "hidden") }

\* What iterating a directory can yield: some of the files, one per name,
\* in any order.
DirListings ==
    UNION { Orders(S) : S \in { T \in SUBSET DirFiles :
                \A f, g \in T : f.name = g.name => f = g } }

\* The names of the universe, as sorted() orders them.
NameOrder == <<".hidden", "_private", "runes", "spell">>

Rank(name) == CHOOSE i \in DOMAIN NameOrder : NameOrder[i] = name

\* The files the digest reads: those whose name starts with neither "."
\* nor "_".
HashedFiles(listing) ==
    SelectSeq(listing, LAMBDA f : ~StartsWithDotOrUnderscore(f.name))

\* sorted(files): the canonical order, by name.
RECURSIVE SortedFiles(_)
SortedFiles(files) ==
    IF files = <<>> THEN <<>>
    ELSE LET f == Head(files)
             rest == SortedFiles(Tail(files))
         IN  SelectSeq(rest, LAMBDA g : Rank(g.name) < Rank(f.name))
             \o <<f>>
             \o SelectSeq(rest, LAMBDA g : Rank(g.name) > Rank(f.name))

\* hasher.update(bytes) for each file in turn: the bytes the hasher has
\* been fed.
RECURSIVE ByteStream(_)
ByteStream(files) ==
    IF files = <<>> THEN "" ELSE Head(files).bytes \o ByteStream(Tail(files))

\* A hasher fed in the order the directory is iterated.
ComputeGrimoriumHashUnsorted(listing) ==
    Md5(ByteStream(HashedFiles(listing)))

\* _compute_grimorium_hash(folder): the hex digest of the bytes of the
\* files read, in canonical order.
ComputeGrimoriumHash(listing) ==
    Md5(ByteStream(SortedFiles(HashedFiles(listing))))

\* The files of a listing that are neither hidden nor private, as a set.
VisibleFiles(listing) ==
    { f \in { listing[i] : i \in DOMAIN listing } : ~StartsWithDotOrUnderscore(f.name) }

\* _compute_grimorium_hash on a directory of the universe; `before` keeps
\* what the call before this one read and returned.
ComputeGrimoriumHashCall ==
    \E listing \in DirListings :
        /\ digest' = [listing |-> listing,
                      value |-> ComputeGrimoriumHash(listing),
                      before |-> [files |-> VisibleFiles(digest.listing),
                                  value |-> digest.value]]
        /\ op' = "compute_grimorium_hash"
        /\ arg' = None
        /\ raised' = FALSE
        /\ log' = {}
        /\ faults' = {}
        /\ NoFind /\ NoAccess /\ NoSync /\ NoPolicy
        /\ NoEmbed
        /\ UNCHANGED <<registry, allowed, index, scan>>

-----------------------------------------------------------------------------
(* _get_embedding of the grimorium package: the embedding of a text, with  *)
(* retries (src/grimorium/spellsync.py, lines 126-158).                    *)

\* The default of max_retries.
DefaultMaxRetries == 3

\* The largest max_retries a caller passes here.
MaxRetries == 4

\* The texts embedded: a query and the documentation of a spell.
EmbeddedTexts == {"forecast", "Get the weather forecast.", ""}

\* What client.models.embed_content does on one request: it returns a
\* response, or it raises an Exception (a network error, a quota error,
\* a response without embeddings whose [0] raises IndexError).
EmbedOutcomes == {"returns", "raises"}

RECURSIVE Pow2(_)
Pow2(n) == IF n = 0 THEN 1 ELSE 2 * Pow2(n - 1)

\* Line 150: a failed attempt is followed by another one.
RetriesLeft(attempt, max_retries) == attempt < max_retries - 1

\* What an operation of the embedder leaves in the records of the others.
EmbedRecord ==
    /\ op' = "get_embedding"
    /\ arg' = None
    /\ raised' = FALSE
    /\ faults' = {}
    /\ NoFind /\ NoAccess /\ NoSync /\ NoPolicy /\ NoHash
    /\ UNCHANGED <<registry, allowed, index, scan>>

\* _get_embedding(text, max_retries) is called: the for loop of line 137
\* is entered with attempt = 0.
GetEmbedding ==
    /\ embedding.pc # "loop"
    /\ \E text \in EmbeddedTexts, max_retries \in 0..MaxRetries :
          embedding' = [pc |-> "loop", text |-> text,
                        max_retries |-> max_retries, attempt |-> 0,
                        outcomes |-> <<>>, waited |-> 0, value |-> NoVector]
    /\ log' = {}
    /\ EmbedRecord

\* A loop that goes on after a response was returned.
EmbedAttemptIgnoringSuccess ==
    /\ embedding.pc = "loop"
    /\ embedding.attempt < embedding.max_retries
    /\ \E outcome \in EmbedOutcomes :
          LET e == [embedding EXCEPT !.outcomes = Append(@, outcome)]
          IN  IF RetriesLeft(e.attempt, e.max_retries)
              THEN /\ embedding' = [e EXCEPT !.attempt = @ + 1,
                                             !.waited = @ + Pow2(e.attempt)]
                   /\ log' = log
              ELSE /\ embedding' = [e EXCEPT !.pc = "returned",
                                             !.value = IF outcome = "returns"
                                                       THEN Vector(e.text)
                                                       ELSE NoVector]
                   /\ log' = log
    /\ EmbedRecord

\* One turn of the loop, lines 137-158: the request is made; a response
\* is returned at once (line 147); an Exception is logged and followed by
\* a wait of 2**attempt seconds and another turn, or, on the last turn,
\* by return None.
EmbedAttempt ==
    /\ embedding.pc = "loop"
    /\ embedding.attempt < embedding.max_retries
    /\ \E outcome \in EmbedOutcomes :
          LET e == [embedding EXCEPT !.outcomes = Append(@, outcome)]
          IN  IF outcome = "returns"
              THEN /\ embedding' = [e EXCEPT !.pc = "returned",
                                             !.value = Vector(e.text)]
                   /\ log' = log
              ELSE IF RetriesLeft(e.attempt, e.max_retries)
              THEN /\ embedding' = [e EXCEPT !.attempt = @ + 1,
                                             !.waited = @ + Pow2(e.attempt)]
                   /\ log' = log \cup {<<"error", "retrying">>}
              ELSE /\ embedding' = [e EXCEPT !.pc = "returned"]
                   /\ log' = log \cup {<<"error", "failed">>}
    /\ EmbedRecord

\* range(max_retries) is empty or used up: the function falls off its
\* end, which returns None.
EmbedExhausted ==
    /\ embedding.pc = "loop"
    /\ embedding.attempt >= embedding.max_retries
    /\ embedding' = [embedding EXCEPT !.pc = "returned"]
    /\ log' = log
    /\ EmbedRecord

-----------------------------------------------------------------------------
(* The specifications.                                                     *)

\* The life of an instance and of its index: construction over the
\* persistent store, discovery passes and synchronisation passes.
SyncNext ==
    \/ Construct
    \/ DiscoverAndLoadSpells(SyncRoots)
    \/ SyncSpells

SyncSpec == Init /\ [][SyncNext]_vars

\* The entry the index holds for an id: the hash of a documentation the
\* spell has had.
StoredHashes(id) == { CurrentHash(f) : f \in { g \in SpellsOnDisk : Key(g) = id } }

\* The contents a persistent store can have when an instance is
\* constructed over it: any collections, each holding any of the ids.
Stores ==
    UNION { [C -> { [id \in S |-> CHOOSE h \in StoredHashes(id) : TRUE] :
                      S \in SUBSET SpellNames }] :
            C \in SUBSET CollectionNames }

\* The registries of the read-side runs: empty, and every spell registered.
Registries ==
    { <<>>,
      RegisterAll(<<>>, <<Func("weather", "get_forecast", "Get the weather forecast.", None),
                          Func("other", "secret_spell", None, None)>>) }

InitAccess ==
    /\ registry \in Registries
    /\ allowed \in AllowLists
    /\ index \in Stores
    /\ op = "construct"
    /\ arg = None
    /\ found = <<>> /\ all_matches = <<>> /\ queried = {}
    /\ store_calls = <<>>
    /\ access = "none" /\ invoked = FALSE /\ status = "none"
    /\ raised = FALSE
    /\ upserts = <<>> /\ passLog = <<>>
    /\ log = {}
    /\ faults = {}
    /\ previous = "none"
    /\ policy = NotAsked
    /\ digest = NotHashed
    /\ scan = NoScan
    /\ embedding = NotEmbedded

\* Searches, access checks and executions on an instance, for every
\* allow-list and every content of the store.
AccessNext ==
    \/ Find
    \/ Validate
    \/ ExecuteSpell

AccessSpec == InitAccess /\ [][AccessNext]_vars

\* A store in which one id is held by both collections.
SharedStore ==
    LET h(id) == CHOOSE x \in StoredHashes(id) : TRUE
    IN  [c \in CollectionNames |->
            IF c = "weather"
            THEN [id \in {"weather.get_forecast"} |-> h(id)]
            ELSE [id \in SpellNames |-> h(id)]]

InitMatch ==
    /\ registry = <<>>
    /\ allowed \in AllowLists
    /\ index = SharedStore
    /\ op = "construct"
    /\ arg = None
    /\ found = <<>> /\ all_matches = <<>> /\ queried = {}
    /\ store_calls = <<>>
    /\ access = "none" /\ invoked = FALSE /\ status = "none"
    /\ raised = FALSE
    /\ upserts = <<>> /\ passLog = <<>>
    /\ log = {}
    /\ faults = {}
    /\ previous = "none"
    /\ policy = NotAsked
    /\ digest = NotHashed
    /\ scan = NoScan
    /\ embedding = NotEmbedded

\* The ranking of a search, over every answer the store can give.
MatchNext == FindRanked

MatchSpec == InitMatch /\ [][MatchNext]_vars

\* A store that holds more ids than top_spells: three in each collection.
CrowdedStore ==
    [c \in CollectionNames |->
        IF c = "weather"
        THEN [id \in {"weather.get_forecast", "weather.get_alerts", "weather.get_radar"}
                |-> Md5("")]
        ELSE [id \in {"other.secret_spell", "other.scry", "other.ward"} |-> Md5("")]]

InitTop ==
    /\ registry = <<>>
    /\ allowed \in {NoAllowList, AllowList({"weather"})}
    /\ index = CrowdedStore
    /\ op = "construct"
    /\ arg = None
    /\ found = <<>> /\ all_matches = <<>> /\ queried = {}
    /\ store_calls = <<>>
    /\ access = "none" /\ invoked = FALSE /\ status = "none"
    /\ raised = FALSE
    /\ upserts = <<>> /\ passLog = <<>>
    /\ log = {}
    /\ faults = {}
    /\ previous = "none"
    /\ policy = NotAsked
    /\ digest = NotHashed
    /\ scan = NoScan
    /\ embedding = NotEmbedded

\* One search on a fresh instance over the crowded store.
FindCrowded ==
    /\ op = "construct"
    /\ FindMatchingSpells({Query("str", <<>>), Query("str", <<"w", "f">>)},
                          ThresholdDistances, {"query"})

\* The cut at top_spells, over every answer the crowded store can give.
TopNext == FindCrowded

TopSpec == InitTop /\ [][TopNext]_vars

\* A store whose collection "weather" holds one id more than top_spells,
\* and whose collection "other" holds one of them too, left by an earlier
\* pass, beside an id of its own.
NearStore ==
    [c \in CollectionNames |->
        IF c = "weather"
        THEN [id \in {"weather.get_forecast", "weather.get_alerts", "weather.get_radar",
                      "weather.get_tides", "weather.get_wind", "weather.get_uv"}
                |-> Md5("")]
        ELSE [id \in {"weather.get_forecast", "other.secret_spell"} |-> Md5("")]]

\* The distances of the entries to a query: below the threshold, at the
\* threshold and beyond it.
NearDists == {DistanceThreshold - 1, DistanceThreshold, DistanceThreshold + 1}

\* Every distance of every entry of the store to the query.
NearTables ==
    { [c \in CollectionNames |-> IF c = "weather" THEN w ELSE o] :
        w \in [DOMAIN NearStore["weather"] -> NearDists],
        o \in [DOMAIN NearStore["other"] -> NearDists] }

InitNear ==
    /\ registry = <<>>
    /\ allowed \in {NoAllowList, AllowList({"weather"})}
    /\ index = NearStore
    /\ op = "construct"
    /\ arg = None
    /\ found = <<>> /\ all_matches = <<>> /\ queried = {}
    /\ store_calls = <<>>
    /\ access = "none" /\ invoked = FALSE /\ status = "none"
    /\ raised = FALSE
    /\ upserts = <<>> /\ passLog = <<>>
    /\ log = {}
    /\ faults = {}
    /\ previous = "none"
    /\ policy = NotAsked
    /\ digest = NotHashed
    /\ scan = NoScan
    /\ embedding = NotEmbedded

\* One search on a fresh instance over that store, for every distance of
\* its entries to the query.
FindNear ==
    /\ op = "construct"
    /\ FindNearest(NearTables)

NearNext == FindNear

NearSpec == InitNear /\ [][NearNext]_vars

\* One search on a fresh instance over the shared store, in which the
\* search of a collection can fail in every way.
FindFailing ==
    /\ op = "construct"
    /\ FindMatchingSpells({Query("str", <<>>), Query("str", <<"w", "f">>)},
                          ThresholdDistances, SearchFailures)

\* The search when collections fail.
FailingNext == FindFailing

FailingSpec == InitMatch /\ [][FailingNext]_vars

\* The files a "weather" directory can hold: a valid one (a tagged
\* function, an untagged helper and a second name bound to the tagged
\* function), one that does not parse, one whose top-level code raises,
\* one that calls sys.exit(), and a private one.
WeatherFiles ==
    { PyFile("tools", "ok",
             <<Member("get_forecast", "get_forecast", "Get the weather forecast.", None, TRUE),
               Member("helper", "helper", None, None, FALSE),
               Member("today", "get_forecast", "Get the weather forecast.", None, TRUE)>>),
      PyFile("alerts", "syntax error", <<Member("get_alerts", "get_alerts", None, None, TRUE)>>),
      PyFile("radar", "Exception", <<Member("get_radar", "get_radar", None, None, TRUE)>>),
      PyFile("cli", "SystemExit", <<>>),
      PyFile("_private", "ok", <<Member("hidden_spell", "hidden_spell", None, None, TRUE)>>) }

\* A file in a private subdirectory of its collection: _drafts/draft.py.
DraftFile ==
    Nested("_drafts",
           PyFile("draft", "ok", <<Member("draft_spell", "draft_spell", None, None, TRUE)>>))

\* A second file of "weather" that defines a tagged get_forecast of its
\* own: city.py.
CityFile ==
    PyFile("city", "ok",
           <<Member("get_forecast", "get_forecast", "Get the forecast for a city.",
                    None, TRUE)>>)

\* A file whose module binds, after its tagged function, an object on
\* which getattr raises (getmembers lists the members by name): views.py.
ViewsFile ==
    PyFile("views", "ok",
           <<Member("get_forecast", "get_forecast", "Get the weather forecast.",
                    None, TRUE),
             RaisesOnGetattr(Member("request", "request", None, None, FALSE))>>)

\* tools.py, with its one tagged function.
ToolsFile ==
    PyFile("tools", "ok",
           <<Member("get_forecast", "get_forecast", "Get the weather forecast.",
                    None, TRUE)>>)

OtherFiles ==
    { PyFile("tools", "ok", <<Member("secret_spell", "secret_spell", None, None, TRUE)>>) }

\* The most files a directory of the universe holds.
MaxFiles == 2

\* The sequences of at most n different files of a set.
RECURSIVE FileLists(_, _)
FileLists(Files, n) ==
    IF n = 0 THEN {<<>>}
    ELSE LET shorter == FileLists(Files, n - 1)
         IN  shorter \cup
             UNION { { Append(fs, f) :
                         f \in { g \in Files : \A i \in DOMAIN fs : fs[i] # g } } :
                     fs \in shorter }

\* The manifest.json a directory of the universe can hold.
TreeManifests ==
    { ManifestFile("missing", EmptyManifest),
      ManifestFile("invalid json", EmptyManifest),
      ManifestFile("object", Manifest("true", NoList, NoList)),
      ManifestFile("object", Manifest("false", NoList, NoList)),
      ManifestFile("object", Manifest("absent", ListOf({}), NoList)),
      ManifestFile("object", Manifest("absent", NoList, ListOf({"get_forecast"}))) }

\* The entries a root of the universe can hold: the two collections, a
\* hidden directory and a file; "weather" can have the private
\* subdirectory, alone or after another file, the two files that both
\* define get_forecast, in either order, and the file whose scan raises.
TreeEntries ==
    { Entry("weather", TRUE, ManifestFile("missing", EmptyManifest), Append(fs, DraftFile)) :
        fs \in FileLists(WeatherFiles, 1) }
    \cup
    { Entry("weather", TRUE, ManifestFile("missing", EmptyManifest), fs) :
        fs \in {<<ToolsFile, CityFile>>, <<CityFile, ToolsFile>>, <<ViewsFile>>} }
    \cup
    { Entry("weather", TRUE, m, fs) : m \in TreeManifests, fs \in FileLists(WeatherFiles, MaxFiles) }
    \cup { Entry("other", TRUE, m, fs) :
             m \in { ManifestFile("missing", EmptyManifest),
                     ManifestFile("object", Manifest("false", NoList, NoList)) },
             fs \in FileLists(OtherFiles, MaxFiles) }
    \cup { Entry("_cache", TRUE, ManifestFile("missing", EmptyManifest),
                 <<PyFile("tools", "ok",
                          <<Member("cached", "cached", None, None, TRUE)>>)>>),
           Entry("README.md", FALSE, ManifestFile("missing", EmptyManifest), <<>>) }

\* The most entries a root of the universe holds.
MaxEntries == 2

\* The names of the entries of the universe.
EntryNames == { e.name : e \in TreeEntries }

\* The sequences of at most n different names of a set.
RECURSIVE NameSeqs(_, _)
NameSeqs(Names, n) ==
    IF n = 0 THEN {<<>>}
    ELSE LET shorter == NameSeqs(Names, n - 1)
         IN  shorter \cup
             UNION { { Append(ns, x) :
                         x \in { y \in Names : \A i \in DOMAIN ns : ns[i] # y } } :
                     ns \in shorter }

\* The sequences of entries whose names are the given ones, in order.
RECURSIVE EntriesNamed(_)
EntriesNamed(names) ==
    IF names = <<>> THEN {<<>>}
    ELSE LET rest == EntriesNamed(Tail(names))
         IN  UNION { { <<e>> \o es : es \in rest } :
                     e \in { f \in TreeEntries : f.name = Head(names) } }

\* The sequences of at most n entries of different names.
EntryLists(n) == UNION { EntriesNamed(ns) : ns \in NameSeqs(EntryNames, n) }

\* The roots of the universe: missing, a file, or a directory of at most
\* MaxEntries entries, in any order.
TreeRoots ==
    { Root("missing", <<>>), Root("file", <<>>) }
    \cup { Root("dir", es) : es \in EntryLists(MaxEntries) }

InitDiscover ==
    /\ registry \in Registries
    /\ allowed = NoAllowList
    /\ index = EmptyMap
    /\ op = "construct"
    /\ arg = None
    /\ found = <<>> /\ all_matches = <<>> /\ queried = {}
    /\ store_calls = <<>>
    /\ access = "none" /\ invoked = FALSE /\ status = "none"
    /\ raised = FALSE
    /\ upserts = <<>> /\ passLog = <<>>
    /\ log = {}
    /\ faults = {}
    /\ previous = "none"
    /\ policy = NotAsked
    /\ digest = NotHashed
    /\ scan = NoScan
    /\ embedding = NotEmbedded

\* One discovery pass over a tree of the universe.
DiscoverTree ==
    /\ op = "construct"
    /\ DiscoverAndLoadSpells(TreeRoots)

\* Discovery over every tree of the universe, into an empty registry and
\* into one that holds spells already.
DiscoverNext == DiscoverTree

DiscoverSpec == InitDiscover /\ [][DiscoverNext]_vars

\* The manifest policy, on every manifest.json of the universe.
PolicyNext ==
    \/ LoadManifestCall
    \/ IsSpellAllowedCall

PolicySpec == Init /\ [][PolicyNext]_vars

\* The digest of a directory, on every listing of the universe, call
\* after call.
HashNext == ComputeGrimoriumHashCall

HashSpec == Init /\ [][HashNext]_vars

\* Calls of _get_embedding, one after the other, each against a client
\* that answers or raises as it likes. A turn of the loop that can be
\* taken is taken: the thread keeps running, the sleeps end and every
\* request returns or raises.
EmbedNext ==
    \/ GetEmbedding
    \/ EmbedAttempt
    \/ EmbedExhausted

EmbedSpec ==
    /\ Init
    /\ [][EmbedNext]_vars
    /\ WF_vars(EmbedAttempt)
    /\ WF_vars(EmbedExhausted)

\* The members a file tools.py of "weather" can have, as getmembers
\* orders them: a function of the file, one with an override attribute
\* and one imported from a module that is not a discovered one.
GroupMembers ==
    <<Member("get_alerts", "get_alerts", None, "other", TRUE),
      Member("get_forecast", "get_forecast", "Get the weather forecast.", None, TRUE),
      ImportedFrom(<<"shared", "spells">>,
                   Member("shared_spell", "shared_spell", None, None, TRUE))>>

\* The roots whose only collection is "weather", with some of the
\* members in its tools.py.
GroupRoots ==
    { Root("dir",
           <<Entry("weather", TRUE, ManifestFile("missing", EmptyManifest),
                   <<PyFile("tools", "ok",
                            SelectSeq(GroupMembers, LAMBDA x : x.name \in S))>>)>>) :
      S \in SUBSET {"get_alerts", "get_forecast", "shared_spell"} }

\* Grimorium.__init__: discovery into the fresh registry, then the
\* synchronisation of what was found.
DiscoverGroup ==
    /\ op = "construct"
    /\ DiscoverAndLoadSpells(GroupRoots)

SyncGroup ==
    /\ op = "discover"
    /\ SyncSpells

GroupNext ==
    \/ DiscoverGroup
    \/ SyncGroup

GroupSpec == Init /\ [][GroupNext]_vars

\* The root of the end-to-end scenario: the collection "weather", enabled
\* by its manifest, with one documented spell.
WeatherRoot ==
    Root("dir",
         <<Entry("weather", TRUE, ManifestFile("object", Manifest("true", NoList, NoList)),
                 <<PyFile("tools", "ok",
                          <<Member("get_forecast", "get_forecast",
                                   "Get the weather forecast.", None, TRUE)>>)>>)>>)

\* The same root once the collection has been removed from disk.
EmptyRoot == Root("dir", <<>>)

LifeRoots == {WeatherRoot, EmptyRoot}

\* A search on the instance, the store reporting any distance.
FindLife ==
    FindMatchingSpells({Query("str", <<>>), Query("str", <<"w", "f">>)},
                       0..MaxDist, {"query"})

\* The life of the index of one collection: instances constructed over it,
\* discovery passes over a root that holds the collection and then does
\* not, synchronisations, searches and access checks, in any order.
LifeNext ==
    \/ Construct
    \/ DiscoverAndLoadSpells(LifeRoots)
    \/ SyncSpells
    \/ FindLife
    \/ Validate

LifeSpec == Init /\ [][LifeNext]_vars

\* The command line on the store of the project: runs of the scan command
\* between the passes of the library.
CliNext ==
    \/ ScanSpells(SyncRoots \cup LifeRoots)
    \/ DiscoverAndLoadSpells(LifeRoots)
    \/ SyncSpells

CliSpec == Init /\ [][CliNext]_vars

\* A discovery pass in one thread and executions in another, on the same
\* registry: execute_spell takes no notice of a pass in progress.
ConcurrentNext ==
    \/ ScanStart
    \/ ScanStep
    \/ ScanEnd
    \/ ExecuteSpell

ConcurrentSpec == Init /\ [][ConcurrentNext]_vars

-----------------------------------------------------------------------------
(* Search and access under an allow-list (AccessSpec).                     *)

\* The ids a collection of the store holds.
IdsOf(coll) == IF coll \in DOMAIN index THEN DOMAIN index[coll] ELSE {}

Returned == { found[i] : i \in DOMAIN found }

\* C1: with an allow-list, find_matching_spells queries only collections of
\* the list, and every id it returns is held by a collection of the list
\* that it queried; an id held only by other collections is not returned.
SearchStaysInAllowList ==
    (op = "find" /\ ~allowed.none) =>
        /\ queried \subseteq allowed.names
        /\ \A id \in Returned : \E coll \in queried : id \in IdsOf(coll)
        /\ \A id \in Returned : \E coll \in allowed.names : id \in IdsOf(coll)

\* A search restricted to "weather" returned the forecast while "other",
\* which was not queried, holds an id that "weather" does not.
SearchStaysInAllowListWitness ==
    /\ op = "find"
    /\ allowed = AllowList({"weather"})
    /\ found = <<"weather.get_forecast">>
    /\ queried = {"weather"}
    /\ "other.secret_spell" \in IdsOf("other")
    /\ "other.secret_spell" \notin IdsOf("weather")

\* Some collection of the allow-list holds the id.
HeldByAllowed(id) == \E coll \in allowed.names : id \in IdsOf(coll)

\* Some collection of the allow-list on which the store does not raise
\* holds the id.
HeldByAllowedReachable(id) ==
    \E coll \in allowed.names : id \in IdsOf(coll) /\ Fault("get", coll) \notin faults

\* C2, as claimed: validate_spell_access is True without an allow-list, and
\* otherwise True exactly when a collection of the allow-list holds the id.
AccessIffHeldByAllowed ==
    op = "validate" =>
        (access = "granted" <=> (allowed.none \/ HeldByAllowed(arg)))

\* C2, amended: validate_spell_access is True without an allow-list, and
\* otherwise True exactly when a collection of the allow-list on which the
\* store call does not raise holds the id.
AccessIffHeldByReachableAllowed ==
    op = "validate" =>
        (access = "granted" <=> (allowed.none \/ HeldByAllowedReachable(arg)))

\* Restricted to "weather", the secret spell, which "other" holds, is denied
\* with no store failure at all.
AccessDeniedWitness ==
    /\ op = "validate"
    /\ allowed = AllowList({"weather"})
    /\ arg = "other.secret_spell"
    /\ "other.secret_spell" \in IdsOf("other")
    /\ "weather.get_forecast" \in IdsOf("weather")
    /\ faults = {}
    /\ previous = "none"
    /\ access = "denied"

\* C3: execute_spell runs the callable only when the access check of that
\* call returned True.
ExecutionNeedsAccess ==
    (op = "execute" /\ invoked) => access = "granted"

\* A registered spell was not run because its access check returned False.
ExecutionDeniedWitness ==
    /\ op = "execute"
    /\ arg \in DictKeys(registry)
    /\ access = "denied"
    /\ ~invoked
    /\ status = "error"

-----------------------------------------------------------------------------
(* Synchronisation (SyncSpec).                                             *)

\* The books of the registry and their spells, as sync_spells groups them.
Books == BookBuckets(registry, <<>>)

\* The upsert calls the pass issued on a book.
CallsOn(book) == { i \in DOMAIN upserts : upserts[i].book = book }

\* The store calls that raised on a book during the pass.
FaultsOn(book) == { f \in faults : f.coll = book }

\* The spells of a book whose documentation hash is not the one the index
\* held before the pass, in the order of the registry.
Changed(spells, stored) ==
    LET changed == SelectSeq(spells, LAMBDA s : stored[s.key] # CurrentHash(s.value))
    IN  [i \in DOMAIN changed |-> changed[i].key]

StagedOnlyIfChanged ==
    op = "sync" =>
        \A i \in DOMAIN passLog : \A j \in DOMAIN passLog[i].ids :
            LET id == passLog[i].ids[j]
            IN  passLog[i].stored[id] # CurrentHash(DictGet(registry, id))

\* C5, amended: a pass stages a spell only if the hash of its documentation
\* differs from the hash the index holds for its id in its book, or the
\* index holds none, or the fetch of the stored hashes raised for the book.
StagedOnlyIfChangedOrFetchFailed ==
    op = "sync" =>
        \A i \in DOMAIN passLog : \A j \in DOMAIN passLog[i].ids :
            LET id == passLog[i].ids[j]
            IN  \/ passLog[i].stored[id] # CurrentHash(DictGet(registry, id))
                \/ Fault("get", passLog[i].book) \in faults

\* A pass without failures staged one spell of a book, whose documentation
\* had changed, and skipped the other.
StagedOnlyIfChangedWitness ==
    /\ op = "sync" /\ faults = {}
    /\ \E i \in DOMAIN passLog :
        /\ Len(passLog[i].ids) = 1
        /\ passLog[i].skipped = 1
        /\ passLog[i].stored[passLog[i].ids[1]] # None

\* C6: in a pass every book gets at most one upsert call; the call carries
\* all the ids staged for the book, and a book with none staged gets no call.
OneUpsertPerBook ==
    op = "sync" =>
        /\ \A i \in DOMAIN upserts : \E j \in DOMAIN passLog : passLog[j].book = upserts[i].book
        /\ \A j \in DOMAIN passLog :
            IF passLog[j].ids = <<>>
            THEN CallsOn(passLog[j].book) = {}
            ELSE /\ Cardinality(CallsOn(passLog[j].book)) = 1
                 /\ \A i \in CallsOn(passLog[j].book) : upserts[i].ids = passLog[j].ids

\* A pass staged two spells in one book and sent them in its only call.
OneUpsertPerBookWitness ==
    /\ op = "sync"
    /\ Len(upserts) = 1
    /\ Len(upserts[1].ids) = 2
    /\ Len(passLog) = 1

\* C7: a store call that raises for one book does not make sync_spells
\* raise, and every book is still processed; a book on which no call raised
\* is staged, upserted and indexed as in a pass without any failure.
FailureStaysInItsBook ==
    op = "sync" =>
        /\ ~raised
        /\ Len(passLog) = Len(Books)
        /\ \A i \in DOMAIN passLog :
            /\ passLog[i].book = Books[i].key
            /\ FaultsOn(Books[i].key) = {} =>
                /\ passLog[i].done
                /\ passLog[i].ids = Changed(Books[i].value, passLog[i].stored)
                /\ Cardinality(CallsOn(Books[i].key)) = IF passLog[i].ids = <<>> THEN 0 ELSE 1
                /\ \A k \in DictKeys(Books[i].value) :
                    /\ k \in IdsOf(Books[i].key)
                    /\ index[Books[i].key][k] = CurrentHash(DictGet(registry, k))

\* The first book of a pass failed at a store call and the second book was
\* upserted all the same.
FailureStaysInItsBookWitness ==
    /\ op = "sync"
    /\ Len(passLog) = 2
    /\ ~passLog[1].done
    /\ FaultsOn(passLog[2].book) = {}
    /\ passLog[2].done
    /\ passLog[2].ids # <<>>
    /\ CallsOn(passLog[2].book) # {}

-----------------------------------------------------------------------------
(* Queries that are not queries (AccessSpec).                              *)

\* The query is None, not a string, empty, or made of whitespace only.
InvalidQuery(q) ==
    \/ q.type # "str"
    \/ \A i \in DOMAIN q.text : q.text[i] \in Whitespace

\* C12: a search with an invalid query returns the empty list, raises
\* nothing and makes no call to the vector store.
InvalidQueryFindsNothing ==
    (op = "find" /\ InvalidQuery(arg)) =>
        /\ found = <<>>
        /\ ~raised
        /\ store_calls = <<>>
        /\ queried = {}
        /\ faults = {}

\* A query of two blanks was answered with the empty list, over a store
\* that holds a collection the search could have queried.
InvalidQueryWitness ==
    /\ op = "find"
    /\ arg = Query("str", <<" ", " ">>)
    /\ \E coll \in DOMAIN index : CollectionEligible(allowed, coll) /\ IdsOf(coll) # {}
    /\ found = <<>>
    /\ store_calls = <<>>

-----------------------------------------------------------------------------
(* The ranking of a search (MatchSpec).                                    *)

\* The ids the store reported to the search.
Reported == { all_matches[i].id : i \in DOMAIN all_matches }

\* The smallest distance reported for an id.
MinDistance(id) ==
    LET ds == { all_matches[i].dist : i \in { k \in DOMAIN all_matches : all_matches[k].id = id } }
    IN  CHOOSE d \in ds : \A e \in ds : d <= e

\* Where an id was first reported.
FirstSeen(id) ==
    LET at == { k \in DOMAIN all_matches : all_matches[k].id = id }
    IN  CHOOSE k \in at : \A m \in at : k <= m

\* C8: the list returned holds no id twice, and an id reported several
\* times counts with the smallest distance reported for it: unless the
\* list is cut at top_spells, it holds the ids whose smallest distance is
\* within the threshold, and only those.
DeduplicatedByMinimum ==
    op = "find" =>
        /\ \A i, j \in DOMAIN found : found[i] = found[j] => i = j
        /\ Returned \subseteq { id \in Reported : MinDistance(id) <= DistanceThreshold }
        /\ Len(found) < TopSpells =>
              Returned = { id \in Reported : MinDistance(id) <= DistanceThreshold }

\* The candidates [(A, 0.5), (B, 0.2), (A, 0.1)] gave [A, B].
DeduplicatedByMinimumWitness ==
    /\ op = "find"
    /\ all_matches = << [id |-> "weather.get_forecast", dist |-> 5],
                        [id |-> "other.secret_spell", dist |-> 2],
                        [id |-> "weather.get_forecast", dist |-> 1] >>
    /\ found = <<"weather.get_forecast", "other.secret_spell">>

\* C9: the ids returned are in ascending order of their smallest distance,
\* and ids of equal distance are in the order in which they were first
\* reported.
RankedByDistanceThenFirstSeen ==
    op = "find" =>
        \A i, j \in DOMAIN found :
            i < j =>
                \/ MinDistance(found[i]) < MinDistance(found[j])
                \/ /\ MinDistance(found[i]) = MinDistance(found[j])
                   /\ FirstSeen(found[i]) < FirstSeen(found[j])

\* Two ids tie at 0.2; the one reported first, at 0.5 then, comes first.
RankedTieWitness ==
    /\ op = "find"
    /\ all_matches = << [id |-> "weather.get_forecast", dist |-> 5],
                        [id |-> "other.secret_spell", dist |-> 2],
                        [id |-> "weather.get_forecast", dist |-> 2] >>
    /\ found = <<"weather.get_forecast", "other.secret_spell">>

\* C10: every id returned has a smallest distance that does not exceed the
\* threshold; an id at exactly the threshold is kept (unless the list is
\* cut at top_spells) and an id beyond it is not returned.
ThresholdIsInclusive ==
    op = "find" =>
        /\ \A id \in Returned : MinDistance(id) <= DistanceThreshold
        /\ \A id \in Reported :
            MinDistance(id) = DistanceThreshold => (id \in Returned \/ Len(found) = TopSpells)
        /\ \A id \in Reported : MinDistance(id) > DistanceThreshold => id \notin Returned

\* An id at exactly 0.4 was returned and an id at 0.5 was not.
ThresholdWitness ==
    /\ op = "find"
    /\ all_matches = << [id |-> "weather.get_forecast", dist |-> DistanceThreshold],
                        [id |-> "other.secret_spell", dist |-> DistanceThreshold + 1] >>
    /\ found = <<"weather.get_forecast">>

-----------------------------------------------------------------------------
(* The cut at top_spells (TopSpec).                                        *)

\* The ids that pass the threshold with their smallest distance.
WithinReach == { id \in Reported : MinDistance(id) <= DistanceThreshold }

\* An id ranks before another: a smaller distance, or the same distance
\* and an earlier first report.
RanksBefore(a, b) ==
    \/ MinDistance(a) < MinDistance(b)
    \/ MinDistance(a) = MinDistance(b) /\ FirstSeen(a) < FirstSeen(b)

\* C11: the list returned has top_spells ids at most; it is the first
\* top_spells ids of the ranked ids within the threshold (all of them when
\* there are fewer), however many collections were queried.
CutAtTopSpells ==
    op = "find" =>
        /\ Len(found) <= TopSpells
        /\ Len(found) = IF Cardinality(WithinReach) < TopSpells
                        THEN Cardinality(WithinReach) ELSE TopSpells
        /\ Returned \subseteq WithinReach
        /\ \A i, j \in DOMAIN found : i < j => RanksBefore(found[i], found[j])
        /\ \A a \in Returned : \A b \in WithinReach \ Returned : RanksBefore(a, b)

\* Two collections reported six ids within the threshold; five came back.
CutAtTopSpellsWitness ==
    /\ op = "find"
    /\ Cardinality(queried) = 2
    /\ Cardinality(WithinReach) = TopSpells + 1
    /\ Len(found) = TopSpells

-----------------------------------------------------------------------------
(* A collection whose search fails (FailingSpec).                          *)

\* The collections whose search failed: an exception reached the except
\* clause, or the result was None.
FailedCollections ==
    { f.coll : f \in { g \in faults : g.call \in SearchFailures } }
    \cup { store_calls[i].coll :
             i \in { k \in DOMAIN store_calls :
                       /\ store_calls[k].call = "query"
                       /\ store_calls[k].coll \in queried
                       /\ store_calls[k].result = <<>> } }

\* The merge of what the collections whose search did not fail returned,
\* in the order in which they were queried.
RECURSIVE MergeOfOthers(_)
MergeOfOthers(made) ==
    IF made = <<>> THEN <<>>
    ELSE LET c == Head(made)
         IN  (IF c.call = "query" /\ c.coll \notin FailedCollections
              THEN c.result ELSE <<>>) \o MergeOfOthers(Tail(made))

\* C13: when the search of an eligible collection fails, the call does not
\* raise, the collection contributes nothing to the merge, and the list
\* returned is the one the other collections' results give.
FailedCollectionContributesNothing ==
    (op = "find" /\ FailedCollections # {}) =>
        /\ ~raised
        /\ all_matches = MergeOfOthers(store_calls)
        /\ found = RankMatches(MergeOfOthers(store_calls))

-----------------------------------------------------------------------------
(* The manifest policy (PolicySpec).                                       *)

\* The name is in the list, which the manifest has.
Lists(list, name) == list.present /\ name \in list.names

\* C18: the verdict of _is_spell_allowed is the reference policy's: allowed
\* without a manifest; else denied when enabled is false; else denied when
\* a whitelist is present, an empty one too, and does not hold the name;
\* denied when the blacklist holds the name; allowed otherwise.
PolicyIsReference ==
    op = "is_spell_allowed" =>
        LET m == policy.loaded.manifest
            name == policy.name
        IN  IF policy.loaded.none THEN policy.permitted
            ELSE /\ m.enabled = "false" => ~policy.permitted
                 /\ (m.whitelist.present /\ m.whitelist.names = {}) => ~policy.permitted
                 /\ (m.whitelist.present /\ ~Lists(m.whitelist, name)) => ~policy.permitted
                 /\ Lists(m.blacklist, name) => ~policy.permitted
                 /\ policy.permitted <=>
                       /\ m.enabled # "false"
                       /\ m.whitelist.present => Lists(m.whitelist, name)
                       /\ ~Lists(m.blacklist, name)

\* An enabled manifest with an empty whitelist and no blacklist denied a
\* name.
EmptyWhitelistWitness ==
    /\ op = "is_spell_allowed"
    /\ policy.loaded = Loaded(Manifest("true", ListOf({}), NoList))
    /\ policy.name = "get_forecast"
    /\ ~policy.permitted

\* C19: a name the blacklist holds is denied, whatever the whitelist says.
BlacklistWins ==
    (op = "is_spell_allowed" /\ ~policy.loaded.none
        /\ Lists(policy.loaded.manifest.blacklist, policy.name))
    => ~policy.permitted

\* A name of the whitelist and of the blacklist was denied by a manifest
\* that is not disabled.
BlacklistWinsWitness ==
    /\ op = "is_spell_allowed"
    /\ ~policy.loaded.none
    /\ policy.loaded.manifest.enabled # "false"
    /\ Lists(policy.loaded.manifest.whitelist, policy.name)
    /\ Lists(policy.loaded.manifest.blacklist, policy.name)
    /\ ~policy.permitted

-----------------------------------------------------------------------------
(* Discovery over a tree (DiscoverSpec).                                   *)

\* The collection directories of a root: its entries that are directories
\* and whose name does not start with "." or "_".
CollectionsOf(root) ==
    IF root.kind # "dir" THEN {}
    ELSE { e \in { root.entries[i] : i \in DOMAIN root.entries } :
             e.is_dir /\ e.name \notin HiddenNames }

\* The candidate files of a collection: its *.py files that are not private.
CandidatesOf(e) ==
    { f \in { e.files[i] : i \in DOMAIN e.files } : f.stem \notin HiddenNames }

\* The keys of the tagged functions a file defines.
TaggedKeys(e, f) ==
    { e.name \o "." \o f.members[i].defname :
        i \in { k \in DOMAIN f.members : f.members[k].tagged } }

\* The pass logged a warning of this kind about the file.
Warned(event, e, f) ==
    [event |-> event, subject |-> e.name \o "/" \o f.stem \o ".py"] \in log

\* The keys the registry holds that it did not hold before the pass.
NewKeys == DictKeys(registry) \ DictKeys(arg.before)

\* A tree all of whose candidate files either fail the syntax pre-check or
\* load normally.
BrokenAndValidOnly(root) ==
    /\ root.kind = "dir"
    /\ \A e \in CollectionsOf(root) : \A f \in CandidatesOf(e) :
          f.loads \in {"ok", "syntax error"}

\* C14: over a tree whose files are valid ones and ones that fail the
\* syntax pre-check, in any order, discovery does not raise, logs a
\* warning for every broken file and registers none of its functions, and
\* registers the tagged functions of every valid file.
QuarantineIsolation ==
    (op = "discover" /\ BrokenAndValidOnly(arg.root)) =>
        /\ ~raised
        /\ \A e \in CollectionsOf(arg.root) : \A f \in CandidatesOf(e) :
              /\ f.loads = "syntax error" =>
                    /\ Warned("warning: skipping file", e, f)
                    /\ TaggedKeys(e, f) \cap NewKeys = {}
              /\ f.loads = "ok" => TaggedKeys(e, f) \subseteq DictKeys(registry)

\* The broken file of "weather" was visited before its valid file: a
\* warning was logged and get_forecast was registered all the same.
QuarantineIsolationWitness ==
    /\ op = "discover"
    /\ arg.before = <<>>
    /\ arg.root.kind = "dir"
    /\ Len(arg.root.entries) = 1
    /\ arg.root.entries[1].name = "weather"
    /\ Len(arg.root.entries[1].files) = 2
    /\ arg.root.entries[1].files[1].loads = "syntax error"
    /\ arg.root.entries[1].files[2].loads = "ok"
    /\ ~raised
    /\ [event |-> "warning: skipping file", subject |-> "weather/alerts.py"] \in log
    /\ DictKeys(registry) = {"weather.get_forecast"}

\* C15: discovery never raises: a file whose top-level code raises is
\* logged as a warning and the other files are still loaded; a missing
\* root leaves the registry as it was.
DiscoverNeverRaises ==
    op = "discover" =>
        /\ ~raised
        /\ arg.root.kind = "missing" => registry = arg.before
        /\ \A e \in CollectionsOf(arg.root) : \A f \in CandidatesOf(e) :
              /\ f.loads \in {"Exception", "SystemExit"} =>
                    Warned("warning: failed to load spells", e, f)
              /\ f.loads = "ok" => TaggedKeys(e, f) \subseteq DictKeys(registry)

\* No file of the tree ends the interpreter while it is loaded.
NoFileExits(root) ==
    /\ root.kind = "dir"
    /\ \A e \in CollectionsOf(root) : \A f \in CandidatesOf(e) : f.loads # "SystemExit"

\* The manifest of the collection says "enabled": false.
Disabled(e) == e.manifest.kind = "object" /\ e.manifest.object.enabled = "false"

\* C16: a collection whose manifest has enabled false is skipped: the pass
\* raises nothing and adds no key of that collection to the registry.
DisabledCollectionSkipped ==
    (op = "discover" /\ NoFileExits(arg.root)) =>
        /\ ~raised
        /\ \A e \in CollectionsOf(arg.root) :
              Disabled(e) => \A k \in NewKeys : DictGet(registry, k).collection # e.name

\* The keys of the members of the loaded files that are tagged and that the
\* manifest of their collection permits, each under its member name.
PermittedKeys(root) ==
    UNION { UNION { { e.name \o "." \o f.members[i].name :
                        i \in { k \in DOMAIN f.members :
                                  /\ f.members[k].tagged
                                  /\ IsSpellAllowed(f.members[k].name,
                                                    LoadManifest(e.manifest)) } } :
                    f \in { g \in CandidatesOf(e) : g.loads = "ok" } } :
            e \in CollectionsOf(root) }

\* C17: the pass inserts the tagged members that the manifest policy of
\* their collection permits, each under "{collection}.{member name}", and
\* nothing else.
RegistersTaggedAndPermitted ==
    (op = "discover" /\ NoFileExits(arg.root)) =>
        DictKeys(registry) = DictKeys(arg.before) \cup PermittedKeys(arg.root)

-----------------------------------------------------------------------------
(* The digest of a collection directory (HashSpec).                        *)

\* hashlib.md5().hexdigest(): the digest of the empty input.
EmptyDigest == "d41d8cd98f00b204e9800998ecf8427e"

\* C21: the digest depends only on the bytes of the files that are
\* neither hidden nor private: a call over the same such files as the call
\* before returns the same digest, whatever the order of iteration and
\* whatever hidden or private files are there; a directory with no such
\* file yields the digest of the empty input; and no call raises.
DigestOfVisibleBytes ==
    op = "compute_grimorium_hash" =>
        /\ ~raised
        /\ (/\ digest.before.value # None
            /\ digest.before.files = VisibleFiles(digest.listing))
           => digest.value = digest.before.value
        /\ VisibleFiles(digest.listing) = {} => digest.value = EmptyDigest

\* A second call over the same two spell files, iterated against their
\* sorted order and next to a private file.
DigestOfVisibleBytesWitness ==
    /\ op = "compute_grimorium_hash"
    /\ digest.before.value # None
    /\ digest.before.files = VisibleFiles(digest.listing)
    /\ Len(digest.listing) = 3
    /\ digest.listing[1].name = "spell"
    /\ digest.listing[2].name = "_private"
    /\ digest.listing[3].name = "runes"
    /\ digest.listing[1].bytes # digest.listing[3].bytes
    /\ digest.value # EmptyDigest

-----------------------------------------------------------------------------
(* Discovery next to a reader of the registry (ConcurrentSpec).            *)

\* The keys the pass in progress has yet to register.
PendingKeys ==
    { Key(SpellObject(scan.collection, scan.stem, scan.members[i])) :
        i \in { j \in DOMAIN scan.members : IsSpell(scan.members[j]) } }

\* The registry holds some of the keys the pass in progress registers
\* for a collection and lacks others.
PartiallyPopulated ==
    /\ scan # NoScan
    /\ scan.done # {}
    /\ PendingKeys \ DictKeys(registry) # {}

\* C22: no reader of the registry runs on a collection that a discovery
\* pass has populated only in part: an execution never reads the registry
\* between two registrations of one pass.
ReadersSeeWholeCollections ==
    op = "execute" => ~PartiallyPopulated

-----------------------------------------------------------------------------
(* Denial as a result (AccessSpec).                                        *)

\* The collections on which the store raised during the operation.
FaultyCollections == { f.coll : f \in faults }

\* C24: a denied access is a result and never an exception: neither the
\* access check nor the execution raises, whatever the store does; an
\* execution answers with the status "error", and runs nothing, when the
\* access check says no or the name is not in the registry; and the
\* access check says no when the store fails on every allowed collection.
DenialIsAResult ==
    /\ op \in {"validate", "execute"} =>
          /\ ~raised
          /\ access \in {"granted", "denied"}
    /\ (op = "execute" /\ (access = "denied" \/ arg \notin DictKeys(registry))) =>
          /\ status = "error"
          /\ ~invoked
    /\ (/\ op \in {"validate", "execute"}
        /\ ~allowed.none
        /\ allowed.names \subseteq FaultyCollections) => access = "denied"

\* The execution of a registered spell that an allowed collection holds,
\* denied because the store fails on that collection.
DenialIsAResultWitness ==
    /\ op = "execute"
    /\ arg \in DictKeys(registry)
    /\ \E coll \in allowed.names :
          /\ coll \in DOMAIN index
          /\ arg \in DOMAIN index[coll]
    /\ faults # {}
    /\ access = "denied"
    /\ status = "error"
    /\ ~raised

-----------------------------------------------------------------------------
(* Hidden and private names in discovery (DiscoverSpec).                   *)

\* The file is hidden or private, or lies in a subdirectory that is.
HiddenFile(f) ==
    \/ f.stem \in HiddenNames
    \/ \E i \in DOMAIN f.parents : f.parents[i] \in HiddenNames

\* The keys of the tagged functions of the tree that lie in an entry of
\* the root that is no collection, in a hidden or private file, or below
\* a hidden or private subdirectory of a collection.
HiddenKeys(root) ==
    IF root.kind # "dir" THEN {}
    ELSE UNION { UNION { TaggedKeys(e, f) :
                           f \in { g \in { e.files[i] : i \in DOMAIN e.files } :
                                     e \notin CollectionsOf(root) \/ HiddenFile(g) } } :
                 e \in { root.entries[i] : i \in DOMAIN root.entries } }

\* C25: a discovery pass registers no key from an entry of the root that
\* is hidden, private or not a directory, and none from a hidden or
\* private file or subdirectory of a collection, at any depth.
NothingHiddenIsLoaded ==
    op = "discover" => NewKeys \cap HiddenKeys(arg.root) = {}

-----------------------------------------------------------------------------
(* Failures and denials in the log (AccessSpec).                           *)

\* C26: every failure an operation absorbs and every denial is logged: a
\* search, an access check or an execution during which a store call
\* raised, or which denied the access, has logged at least one event when
\* it returns.
EveryFailureIsLogged ==
    (/\ op \in {"find", "validate", "execute"}
     /\ (faults # {} \/ access = "denied")) => log # {}

-----------------------------------------------------------------------------
(* A failed fetch of the stored hashes (SyncSpec).                         *)

\* C27: when the fetch of the stored hashes raises for a book, the pass
\* does not raise and does not skip the book: every spell of the book is
\* staged, none is skipped, the ids go out in an upsert call, and unless
\* that call raises the index holds each of them with its current hash.
FetchFailureReindexes ==
    op = "sync" =>
        /\ ~raised
        /\ \A i \in DOMAIN passLog :
              Fault("get", passLog[i].book) \in faults =>
                LET book == passLog[i].book
                    ids == passLog[i].ids
                    spells == DOMAIN passLog[i].stored
                IN  /\ { ids[j] : j \in DOMAIN ids } = spells
                    /\ passLog[i].skipped = 0
                    /\ \E c \in CallsOn(book) : upserts[c].ids = ids
                    /\ Fault("upsert", book) \notin faults =>
                          /\ book \in DOMAIN index
                          /\ \A k \in spells :
                                /\ k \in DOMAIN index[book]
                                /\ index[book][k] = CurrentHash(DictGet(registry, k))

\* The fetch failed for a book whose two spells the index already held,
\* one of them with its current hash: both were staged and upserted.
FetchFailureReindexesWitness ==
    /\ op = "sync"
    /\ \E i \in DOMAIN passLog :
          /\ Fault("get", passLog[i].book) \in faults
          /\ Fault("upsert", passLog[i].book) \notin faults
          /\ Len(passLog[i].ids) = 2
          /\ \A k \in DOMAIN passLog[i].stored : passLog[i].stored[k] # None
          /\ \E k \in DOMAIN passLog[i].stored :
                passLog[i].stored[k] = CurrentHash(DictGet(registry, k))
          /\ passLog[i].done

-----------------------------------------------------------------------------
(* The grouping of the registry into books (GroupSpec).                    *)

\* The groups of the pass that hold a key of the registry.
GroupsOf(k) == { i \in DOMAIN passLog : k \in DOMAIN passLog[i].stored }

\* C28: a pass puts every entry of the registry in exactly one group, no
\* two groups bear the same name, and the group of an entry is the one
\* named by its override attribute when it has one and otherwise the one
\* named by the prefix of its qualified name, the key "{collection}.{name}".
GroupedOnceOverrideFirst ==
    (op = "sync" /\ registry # <<>>) =>
        /\ \A i, j \in DOMAIN passLog : passLog[i].book = passLog[j].book => i = j
        /\ \A k \in DictKeys(registry) :
              LET f == DictGet(registry, k)
              IN  /\ Cardinality(GroupsOf(k)) = 1
                  /\ \A i \in GroupsOf(k) :
                        passLog[i].book =
                            IF f.override # None THEN f.override ELSE f.collection

-----------------------------------------------------------------------------
(* From the directory to the answer (LifeSpec).                            *)

\* The store reported the id at a distance within the threshold.
ReportedWithin(id) ==
    \E i \in DOMAIN all_matches :
        all_matches[i].id = id /\ all_matches[i].dist <= DistanceThreshold

\* C23: end to end, a discovery pass over the root with the enabled
\* collection "weather" and its documented spell get_forecast registers
\* "weather.get_forecast"; a synchronisation without store failures then
\* leaves it in the collection "weather" of the index; and a search for
\* which the store reports it within the threshold returns exactly it.
EndToEnd ==
    /\ (op = "discover" /\ arg.root = WeatherRoot) =>
          /\ ~raised
          /\ "weather.get_forecast" \in DictKeys(registry)
    /\ (op = "sync" /\ faults = {} /\ "weather.get_forecast" \in DictKeys(registry)) =>
          "weather.get_forecast" \in IdsOf("weather")
    /\ (op = "find" /\ ReportedWithin("weather.get_forecast")) =>
          found = <<"weather.get_forecast">>

\* The index was empty before the instance discovered and synchronised
\* the spell; the store reports it at the threshold and the search
\* returns it.
EndToEndWitness ==
    /\ op = "find"
    /\ "weather.get_forecast" \in DictKeys(registry)
    /\ \E i \in DOMAIN all_matches :
          /\ all_matches[i].id = "weather.get_forecast"
          /\ all_matches[i].dist = DistanceThreshold
    /\ found = <<"weather.get_forecast">>

-----------------------------------------------------------------------------
(* What stays in the registry and in the index (LifeSpec).                 *)

\* A step removes nothing: the registry of the instance keeps its keys
\* (a step that constructs an instance starts a new registry), and the
\* index keeps its collections and their ids.
KeepsEverything ==
    /\ op' # "construct" => DictKeys(registry) \subseteq DictKeys(registry')
    /\ \A c \in DOMAIN index :
          /\ c \in DOMAIN index'
          /\ DOMAIN index[c] \subseteq DOMAIN index'[c]

\* An id that the index holds and the registry does not is served like
\* any other: a search returns it when the store reports it within the
\* threshold, and an access check accepts it when an allowed collection
\* on which the store does not fail holds it.
StaleIsServed ==
    /\ (/\ op = "find"
        /\ "weather.get_forecast" \notin DictKeys(registry)
        /\ ReportedWithin("weather.get_forecast")) =>
          "weather.get_forecast" \in Returned
    /\ (/\ op = "validate"
        /\ arg \notin DictKeys(registry)
        /\ \E c \in allowed.names \ FaultyCollections : arg \in IdsOf(c)) =>
          access = "granted"

\* C29: nothing is ever evicted: no discovery pass, synchronisation,
\* search or access check removes a key from the registry or an id or a
\* collection from the index, and an id whose spell is gone from disk and
\* from the registry is still returned by searches and accepted by
\* access checks.
NothingEvicted == [][KeepsEverything]_vars /\ []StaleIsServed

\* A new instance whose discovery pass found nothing on disk: the search
\* still returns the id an earlier instance had put in the index.
NothingEvictedWitness ==
    /\ op = "find"
    /\ registry = <<>>
    /\ found = <<"weather.get_forecast">>

-----------------------------------------------------------------------------
(* Who writes the index and the registry (LifeSpec).                       *)

\* A search or an access check changes neither the index nor the
\* registry; only a synchronisation changes the index, and only a
\* discovery pass or the construction of an instance the registry.
ReadersWriteNothing ==
    /\ op' \in {"find", "validate"} => UNCHANGED <<index, registry>>
    /\ index' # index => op' = "sync"
    /\ registry' # registry => op' \in {"discover", "construct"}

\* C30: sync_spells is the only writer of the index: find_matching_spells
\* and validate_spell_access leave the collections of the index, their
\* entries and the registry as they were.
OnlySyncWritesIndex == [][ReadersWriteNothing]_vars

\* An access check on an allowed collection that the index does not have:
\* the access is denied and the collection is still not there.
OnlySyncWritesIndexWitness ==
    /\ op = "validate"
    /\ ~allowed.none
    /\ \E c \in allowed.names : c \notin DOMAIN index
    /\ access = "denied"

-----------------------------------------------------------------------------
(* The retries of _get_embedding (EmbedSpec).                              *)

\* The requests of the call so far, and those that raised.
Attempts == Len(embedding.outcomes)
AllRaised(n) == \A i \in 1..n : embedding.outcomes[i] = "raises"

\* The call has returned the embedding of its last request, which is the
\* first one that was answered.
ReturnedFirstSuccess ==
    /\ Attempts >= 1
    /\ embedding.outcomes[Attempts] = "returns"
    /\ AllRaised(Attempts - 1)
    /\ embedding.value = Vector(embedding.text)

\* The call has returned None after max_retries requests that all raised.
ReturnedNoneAfterFailures ==
    /\ Attempts = embedding.max_retries
    /\ AllRaised(Attempts)
    /\ embedding.value = NoVector

AtMostMaxRetries ==
    /\ Attempts <= embedding.max_retries
    /\ embedding.pc = "loop" => AllRaised(Attempts)
    /\ embedding.pc = "returned" =>
          \/ ReturnedFirstSuccess
          \/ ReturnedNoneAfterFailures

\* C31: a call of _get_embedding(text, max_retries) makes at most
\* max_retries requests, returns the embedding of the first request that
\* is answered without making another one, returns None once max_retries
\* requests in a row have raised, and always returns.
BoundedRetries ==
    /\ []AtMostMaxRetries
    /\ (embedding.pc = "loop") ~> (embedding.pc = "returned")

\* A call with the default max_retries whose two first requests raised and
\* whose third was answered has returned the embedding.
BoundedRetriesWitness ==
    /\ embedding.pc = "returned"
    /\ embedding.max_retries = DefaultMaxRetries
    /\ embedding.outcomes = <<"raises", "raises", "returns">>
    /\ embedding.value = Vector(embedding.text)
    /\ embedding.waited = 3

\* A call with the default max_retries gave up after three requests.
GaveUp ==
    /\ embedding.pc = "returned"
    /\ embedding.max_retries = DefaultMaxRetries
    /\ embedding.outcomes = <<"raises", "raises", "raises">>
    /\ embedding.value = NoVector
    /\ <<"error", "failed">> \in log

-----------------------------------------------------------------------------
(* The scan command (CliSpec).                                             *)

\* What the scan command that just returned had discovered.
DiscoveredByScan == Discover(arg.root, <<>>).registry

\* The ids the store holds, in any collection.
IndexedIds == UNION { DOMAIN index[c] : c \in DOMAIN index }

\* C32: the scan command hands to the synchronisation exactly the spells
\* it discovered, so that after a scan that reports success every spell it
\* discovered has an entry in the store; a scan that discovered nothing
\* prints 'No spells loaded' and synchronises nothing.
ScanThenSync ==
    (op = "scan_spells" /\ ~raised) =>
        IF DiscoveredByScan = <<>>
        THEN /\ Printed("No spells loaded!") \in log
             /\ upserts = <<>> /\ passLog = <<>>
        ELSE /\ Printed("Sync complete!") \in log =>
                   /\ registry = DiscoveredByScan
                   /\ faults = {} => DictKeys(DiscoveredByScan) \subseteq IndexedIds

-----------------------------------------------------------------------------
(* The index after a pass without failure (SyncSpec).                      *)

\* The index holds the spell of a registry entry, in the collection of its
\* book, with the hash of its documentation as it is now.
IndexedCurrent(entry) ==
    LET book == BookOf(entry.value)
    IN  /\ book \in DOMAIN index
        /\ entry.key \in DOMAIN index[book]
        /\ index[book][entry.key] = CurrentHash(entry.value)

\* C33: after a pass of sync_spells in which no store call failed, the
\* index holds, for every capability of the registry, an entry with its id
\* in the collection of its group, and the hash stored with it is the hash
\* of the capability's current documentation.
CleanPassIndexesAll ==
    (op = "sync" /\ faults = {}) =>
        \A i \in DOMAIN registry : IndexedCurrent(registry[i])

\* A pass without failure found the hash of an older documentation stored
\* for a spell, and the index now holds the current one.
CleanPassIndexesAllWitness ==
    /\ op = "sync" /\ faults = {}
    /\ \E i \in DOMAIN registry, j \in DOMAIN passLog :
          /\ registry[i].key \in DOMAIN passLog[j].stored
          /\ passLog[j].stored[registry[i].key]
                \notin {None, CurrentHash(registry[i].value)}
          /\ IndexedCurrent(registry[i])

-----------------------------------------------------------------------------
(* Search and access check on the same instance (AccessSpec).              *)

\* What validate_spell_access answers for an id on the instance and the
\* store as they are, no store call raising.
AccessNow(id) == ValidateSpellAccess(allowed, index, {}, id)

\* C34: every id find_matching_spells returns is accepted by
\* validate_spell_access on the same instance, the store being the same
\* and answering.
SearchAgreesWithAccess ==
    op = "find" =>
        \A i \in DOMAIN found :
            /\ AccessNow(found[i]).granted
            /\ ~AccessNow(found[i]).raises

\* A search under an allow-list of two collections returned an id that only
\* one of them holds, and the store holds an id the access check refuses.
SearchAgreesWithAccessWitness ==
    /\ op = "find"
    /\ ~allowed.none
    /\ \E i \in DOMAIN found, c \in allowed.names :
          /\ c \in DOMAIN index
          /\ found[i] \notin DOMAIN index[c]
          /\ AccessNow(found[i]).granted
    /\ \E id \in SpellNames : ~AccessNow(id).granted

-----------------------------------------------------------------------------
(* From the directory name to the allow-list (GroupSpec).                  *)

\* What validate_spell_access answers for an id on an instance over the
\* same store whose allow-list is the one collection `coll`.
AccessRestrictedTo(coll, id) == ValidateSpellAccess(AllowList({coll}), index, {}, id)

\* C35: after a pass without failure, every capability discovery
\* registered under "C.n" without an override attribute, imported members
\* included, is indexed in the collection C, and an instance restricted to
\* [C] accepts "C.n".
IndexedUnderDirectoryName ==
    (op = "sync" /\ faults = {}) =>
        \A k \in DictKeys(registry) :
            LET f == DictGet(registry, k)
            IN  f.override = None =>
                    /\ f.collection \in DOMAIN index
                    /\ k \in DOMAIN index[f.collection]
                    /\ AccessRestrictedTo(f.collection, k).granted

-----------------------------------------------------------------------------
(* Discovery and the order of the file system (DiscoverSpec).              *)

\* The sequences that hold the elements of s in another order, s included.
Reorderings(s) ==
    { [i \in DOMAIN s |-> s[p[i]]] : p \in Orders(DOMAIN s) }

\* The entry, rglob listing its files in any order.
FileOrders(e) == { [e EXCEPT !.files = fs] : fs \in Reorderings(e.files) }

\* The trees of the same contents as `root`: iterdir lists the entries in
\* any order and rglob the files of each in any order.
SameContents(root) ==
    { Root(root.kind, es) :
        es \in UNION { { fs \in [DOMAIN p -> UNION { FileOrders(p[i]) : i \in DOMAIN p }] :
                           \A i \in DOMAIN p : fs[i] \in FileOrders(p[i]) } :
                       p \in Reorderings(root.entries) } }

\* The registry as a mapping from qualified name to capability.
Mapping(reg) == [k \in DictKeys(reg) |-> DictGet(reg, k)]

\* C36: for a fixed tree, discovery produces the same mapping from
\* qualified name to capability under every order in which the file system
\* lists the collections and the files, two files of a collection that
\* define a tagged member of the same name included.
RegistryIndependentOfOrder ==
    (op = "discover" /\ NoFileExits(arg.root)) =>
        \A other \in SameContents(arg.root) :
            Mapping(Discover(other, arg.before).registry) = Mapping(registry)

-----------------------------------------------------------------------------
(* The empty allow-list (AccessSpec).                                      *)

\* C37: on an instance whose allowed_collections is [], a search returns
\* the empty list for every query, having queried no collection, and the
\* access check returns False for every name, whatever the index holds.
EmptyAllowListAllowsNothing ==
    allowed = AllowList({}) =>
        /\ op = "find" => found = <<>> /\ queried = {} /\ ~raised
        /\ op = "validate" => access = "denied" /\ ~raised

\* A search with a valid query under [] over a store that answers and whose
\* collections hold ids returned nothing.
EmptyAllowListAllowsNothingWitness ==
    /\ allowed = AllowList({})
    /\ op = "find"
    /\ ValidQuery(arg)
    /\ faults = {}
    /\ \A coll \in CollectionNames : IdsOf(coll) # {}
    /\ found = <<>>

\* An access check under [] refused a name that every collection holds.
EmptyAllowListRefuses ==
    /\ allowed = AllowList({})
    /\ op = "validate"
    /\ \A coll \in CollectionNames : arg \in IdsOf(coll)
    /\ access = "denied"

-----------------------------------------------------------------------------
(* top_spells candidates per collection (NearSpec).                        *)

\* The collections the search may read.
EligibleCollections == { c \in DOMAIN index : CollectionEligible(allowed, c) }

\* The ids of all the entries of the eligible collections.
EligibleIds == UNION { IdsOf(c) : c \in EligibleCollections }

\* The distance of an id to the query: the smallest one of its entries in
\* the eligible collections.
TrueDistance(id) ==
    LET ds == { arg.distances[c][id] : c \in { e \in EligibleCollections : id \in IdsOf(e) } }
    IN  CHOOSE d \in ds : \A e \in ds : d <= e

\* The ids of the union whose distance is within the threshold.
TrulyWithin == { id \in EligibleIds : TrueDistance(id) <= DistanceThreshold }

\* C38: when every eligible collection answers with its top_spells nearest
\* entries, the list returned is the first top_spells ids of all the
\* entries of the eligible collections, deduplicated by smallest distance,
\* filtered by the threshold and sorted by distance: it holds no id twice,
\* it is in ascending order of those distances, which are the ones the
\* search used, no id left out is nearer than an id returned, and it is
\* cut only at top_spells.
NothingLostByTopK ==
    op = "find" =>
        /\ \A i, j \in DOMAIN found : found[i] = found[j] => i = j
        /\ Returned \subseteq TrulyWithin
        /\ Len(found) = IF Cardinality(TrulyWithin) < TopSpells
                        THEN Cardinality(TrulyWithin) ELSE TopSpells
        /\ \A i \in DOMAIN found : MinDistance(found[i]) = TrueDistance(found[i])
        /\ \A i, j \in DOMAIN found :
              i < j => TrueDistance(found[i]) <= TrueDistance(found[j])
        /\ \A a \in Returned : \A b \in TrulyWithin \ Returned :
              TrueDistance(a) <= TrueDistance(b)

\* The collection "weather" did not report its sixth entry, the one of
\* get_forecast, which "other" holds at a smaller distance: the id was
\* returned, first, at that distance.
NothingLostByTopKWitness ==
    /\ op = "find"
    /\ allowed.none
    /\ \A i \in DOMAIN all_matches :
          all_matches[i].id = "weather.get_forecast" =>
              all_matches[i].dist = arg.distances["other"]["weather.get_forecast"]
    /\ arg.distances["weather"]["weather.get_forecast"] = DistanceThreshold + 1
    /\ arg.distances["other"]["weather.get_forecast"] = DistanceThreshold - 1
    /\ Len(found) = TopSpells
    /\ found[1] = "weather.get_forecast"

-----------------------------------------------------------------------------
(* Files that failed to load (DiscoverSpec).                               *)

\* The pass logged a load failure about the file: the syntax pre-check
\* (line 348) or the except clause of the load and the scan (line 380).
LoadFailureLogged(e, f) ==
    \/ Warned("warning: skipping file", e, f)
    \/ Warned("warning: failed to load spells", e, f)

\* The keys whose entry the pass added or replaced.
WrittenKeys ==
    { k \in DictKeys(registry) :
        k \notin DictKeys(arg.before) \/ DictGet(arg.before, k) # DictGet(registry, k) }

\* C39: a file about which the pass logs a load failure contributes no
\* entry to the registry: every entry the pass added or replaced is a
\* function of a file about which no failure was logged.
FailedFilesContributeNothing ==
    op = "discover" =>
        \A e \in CollectionsOf(arg.root) : \A f \in CandidatesOf(e) :
            LoadFailureLogged(e, f) =>
                \A k \in WrittenKeys :
                    DictGet(registry, k).module # ModuleName(e.name, f.stem)

====
